---- MODULE Spec2Model ----
(***************************************************************************)
(* A model of the aituber backend: the API key pool (utils.APIKeyPool),    *)
(* the batch generators (AudioService.GenerateAudioChunks,                 *)
(* VideoService.GenerateVideos) and the job orchestrator                   *)
(* (VideoHandler.processVideoGeneration).                                  *)
(***************************************************************************)
EXTENDS Integers, Sequences, FiniteSets, TLC

(***************************************************************************)
(* Bounds of the model.                                                    *)
(***************************************************************************)
\* number of keys configured in one pool (len(p.keys))
NumKeys == 2
\* the clock runs from 0 to MaxTime (abstract time units)
MaxTime == 2
\* MarkFailed is called with a cooldown in 1..MaxCooldown
MaxCooldown == 2
\* SpecPool stops acquiring once the usage counters sum to MaxAcquires
MaxAcquires == 2
\* a script yields at most MaxUnits audio chunks and MaxUnits video segments
MaxUnits == 2
\* the concurrency ceilings (MAX_CONCURRENT_*_REQUESTS) range over 1..MaxConcurrent
MaxConcurrent == 2
\* pool calls of other goroutines during one goroutine's retry loop
MaxOthers == 1
\* the longest script drawn, in characters
MaxLen == 5
\* the largest AudioChunkSize drawn
MaxLimit == 4

(***************************************************************************)
(* The key pool.  Keys are named by their position in p.keys.  Every       *)
(* exported method holds p.mu from its first to its last statement, so     *)
(* each call is one atomic step whatever the callers' interleaving.        *)
(***************************************************************************)
Keys == 1..NumKeys
PoolNames == {"tts", "video"}
\* the "" a failed GetRandomKey returns
NoKey == 0
\* a map entry that is absent (blacklist) or a zero time.Time
NoTime == -1

VARIABLES
    usageCounts,    \* [pool -> [key -> int]]      p.usageCounts
    lastUsedTime,   \* [pool -> [key -> time]]     p.lastUsedTime
    blacklist,      \* [pool -> [key -> time]]     p.blacklist; NoTime = no entry
    clock,          \* the wall clock time.Now() reads
    promisedUntil,  \* history: the latest t+d over all MarkFailed(k, d) calls
    lastMarkUntil,  \* history: t+d of the most recent MarkFailed(k, d) call
    ret,            \* history: the last pool call and what it returned
    cfg,            \* the configuration the handler was built with
    jobs,           \* [job id -> JobStatus record]    h.jobs; NoJob = no entry
    req,            \* [job id -> request]             the task's req argument
    pc,             \* [job id -> position of the task in processVideoGeneration]
    finalVideoPath, \* [job id -> path]                the task's finalVideoPath
    batch,          \* [job id -> the batch call in progress: its semaphore,
                    \*  WaitGroup, done channel, result slices and goroutines]
    batchRet,       \* [job id -> what the last batch call returned]
    srtRet,         \* [job id -> what GenerateSRT returned: "ok", "err"]
    started,        \* history: the stages the task has started, in order
    failedStage,    \* history: the fatal stage that returned an error
    worker,         \* one goroutine inside generateSingleAudio /
                    \* generateSingleVideo: its locals and its position
    tp,             \* a TextProcessor call: its receiver, argument and result
    client,         \* the HTTP side: a submission, a status query reading
                    \* the job's fields, the memory it reads, a download
    stock           \* a StockVideoService call: its arguments, locals and
                    \* result

poolVars == <<usageCounts, lastUsedTime, blacklist, promisedUntil, lastMarkUntil>>

jobVars == <<cfg, jobs, req, pc, finalVideoPath, batch, batchRet, srtRet,
             started, failedStage>>

auxVars == <<worker, tp, client, stock>>

vars == <<usageCounts, lastUsedTime, blacklist, clock, promisedUntil,
          lastMarkUntil, ret, cfg, jobs, req, pc, finalVideoPath, batch,
          batchRet, srtRet, started, failedStage, worker, tp, client, stock>>

\* no goroutine under observation, no TextProcessor call, no HTTP client, no
\* stock video call
NoWorker == [kind |-> "none"]
NoText == [op |-> "none"]
NoClient == [op |-> "none"]
NoStock == [op |-> "none"]

AuxInit ==
    worker = NoWorker /\ tp = NoText /\ client = NoClient /\ stock = NoStock

Times == 0..MaxTime

\* a buggy cleanBlacklist: the comparison is reversed, so entries that have
\* not expired yet are the ones deleted
cleanBlacklistReversed(bl, now) ==
    [k \in Keys |-> IF bl[k] # NoTime /\ bl[k] > now THEN NoTime ELSE bl[k]]

\* now.After(expireTime) deletes the entry
cleanBlacklist(bl, now) ==
    [k \in Keys |-> IF bl[k] # NoTime /\ now > bl[k] THEN NoTime ELSE bl[k]]

\* a buggy getAvailableKeys: the blacklist is not consulted
getAvailableKeysNoFilter(bl, now) == Keys

\* a buggy getAvailableKeys: the comparison is reversed, so the keys skipped
\* are the ones whose entry has expired
getAvailableKeysInverted(bl, now) ==
    {k \in Keys : ~(bl[k] # NoTime /\ now >= bl[k])}

\* keys with no entry, or with an entry that now is not Before
getAvailableKeys(bl, now) ==
    {k \in Keys : ~(bl[k] # NoTime /\ now < bl[k])}

minUsage(usage, available) ==
    CHOOSE m \in {usage[k] : k \in available} :
        \A k \in available : m <= usage[k]

\* candidates without the threshold: any available key
candidatesAny(usage, available) == available

\* candidates with a threshold of minUsage + len(available)
candidatesLoose(usage, available) ==
    {k \in available :
        usage[k] <= minUsage(usage, available) + Cardinality(available)}

\* threshold := minUsage + len(available)/2; candidates fall back to available
candidates(usage, available) ==
    LET threshold == minUsage(usage, available) + (Cardinality(available) \div 2)
        cands == {k \in available : usage[k] <= threshold}
    IN IF cands = {} THEN available ELSE cands

\* GetRandomKey on pool p returning key (NoKey: the error "no available API
\* keys"); n1, n2, n3 are the three readings of time.Now() the call makes
\* (cleanBlacklist, getAvailableKeys, lastUsedTime).
GetRandomKey(p, key, n1, n2, n3) ==
    LET cleaned == cleanBlacklist(blacklist[p], n1)
        available == getAvailableKeys(cleaned, n2)
    IN /\ blacklist' = [blacklist EXCEPT ![p] = cleaned]
       /\ IF available = {}
          THEN /\ key = NoKey
               /\ UNCHANGED <<usageCounts, lastUsedTime>>
          ELSE /\ key \in candidates(usageCounts[p], available)
               /\ usageCounts' = [usageCounts EXCEPT ![p][key] = @ + 1]
               /\ lastUsedTime' = [lastUsedTime EXCEPT ![p][key] = n3]
       /\ UNCHANGED <<promisedUntil, lastMarkUntil>>

\* p.blacklist[key] = time.Now().Add(retryAfter), whatever entry was there
MarkFailed(p, key, retryAfter, now) ==
    LET until == now + retryAfter
    IN /\ blacklist' = [blacklist EXCEPT ![p][key] = until]
       /\ promisedUntil' = [promisedUntil EXCEPT ![p][key] =
                               IF now + retryAfter > @ THEN now + retryAfter ELSE @]
       /\ lastMarkUntil' = [lastMarkUntil EXCEPT ![p][key] = now + retryAfter]
       /\ UNCHANGED <<usageCounts, lastUsedTime>>

\* MarkSuccess takes the lock and changes nothing
MarkSuccess(p, key) == UNCHANGED poolVars

(***************************************************************************)
(* The TextProcessor.  A string is the sequence of its characters; the     *)
(* scripts drawn here are ASCII, where Go's len (bytes) and the rune count *)
(* agree.  Indices in the operators below are Go's, from 0: s[a:b] is      *)
(* Slice(s, a, b).                                                         *)
(***************************************************************************)
Chars == {"a", " ", ".", ","}

\* s[a:b]
Slice(s, a, b) == SubSeq(s, a + 1, b)

\* unicode.IsSpace, on the characters drawn
IsSpace(c) == c = " "

RECURSIVE TrimLeft(_)
TrimLeft(s) ==
    IF s # <<>> /\ IsSpace(Head(s)) THEN TrimLeft(Tail(s)) ELSE s

RECURSIVE TrimRight(_)
TrimRight(s) ==
    IF s # <<>> /\ IsSpace(s[Len(s)])
    THEN TrimRight(SubSeq(s, 1, Len(s) - 1)) ELSE s

\* strings.TrimSpace
TrimSpace(s) == TrimRight(TrimLeft(s))

\* strings.LastIndex: the last i with s[i:i+len(sub)] == sub, or -1
LastIndex(s, sub) ==
    LET at == {i \in 0..(Len(s) - Len(sub)) : Slice(s, i, i + Len(sub)) = sub}
    IN IF at = {} THEN -1
       ELSE CHOOSE i \in at : \A k \in at : k <= i

\* the largest element of a non-empty set of integers
Largest(S) == CHOOSE m \in S : \A k \in S : k <= m

\* a test that knows the three narrow terminators only
isSentenceEndingNarrow(r) == r \in {".", "!", "?"}

\* isSentenceEnding ("fullstop", "fullbang" and "fullquery" stand for the
\* full-width characters U+3002, U+FF01 and U+FF1F)
isSentenceEnding(r) ==
    r \in {".", "!", "?", "fullstop", "fullbang", "fullquery"}

\* the loop of splitIntoSentences from rune i on
RECURSIVE sentencesFrom(_, _, _, _)
sentencesFrom(runes, i, current, sentences) ==
    IF i >= Len(runes)
    THEN IF current # <<>> /\ TrimSpace(current) # <<>>
         THEN Append(sentences, TrimSpace(current))
         ELSE sentences
    ELSE LET cur == Append(current, runes[i + 1])
         IN IF /\ isSentenceEnding(runes[i + 1])
               /\ i + 1 < Len(runes)
               /\ IsSpace(runes[i + 2])
            THEN sentencesFrom(runes, i + 1, <<>>,
                               IF TrimSpace(cur) # <<>>
                               THEN Append(sentences, TrimSpace(cur))
                               ELSE sentences)
            ELSE sentencesFrom(runes, i + 1, cur, sentences)

splitIntoSentences(text) == sentencesFrom(text, 0, <<>>, <<>>)

\* the punctuation smartSplit looks for, in its order ("emdash" stands for
\* the character U+2014)
punctuations ==
    << <<";">>, <<":">>, <<",">>, <<" ", "-", " ">>, <<" ", "emdash", " ">> >>

\* a split point that never falls back to the last space
splitPointNoSpace(remaining, limit) ==
    LET searchStart == limit \div 3
        searchArea == Slice(remaining, searchStart, limit)
        found == {searchStart + LastIndex(searchArea, punctuations[p])
                     + Len(punctuations[p]) :
                  p \in {q \in DOMAIN punctuations :
                            LastIndex(searchArea, punctuations[q]) # -1}}
    IN IF found # {} THEN Largest(found) ELSE limit

\* the split point smartSplit picks in a remaining text longer than limit
splitPoint(remaining, limit) ==
    LET searchStart == limit \div 3
        limitIdx == IF limit > Len(remaining) THEN Len(remaining) ELSE limit
        searchArea == Slice(remaining, searchStart, limitIdx)
        found == {searchStart + LastIndex(searchArea, punctuations[p])
                     + Len(punctuations[p]) :
                  p \in {q \in DOMAIN punctuations :
                            LastIndex(searchArea, punctuations[q]) # -1}}
        lastSpace == LastIndex(Slice(remaining, 0, limitIdx), <<" ">>)
    IN IF found # {} THEN Largest(found)
       ELSE IF lastSpace # -1 THEN lastSpace
       ELSE limit

\* the loop of smartSplit and the append after it
RECURSIVE smartSplitFrom(_, _, _)
smartSplitFrom(remaining, limit, chunks) ==
    IF Len(remaining) > limit
    THEN LET splitIdx == splitPoint(remaining, limit)
             chunk == TrimSpace(Slice(remaining, 0, splitIdx))
         IN smartSplitFrom(TrimSpace(Slice(remaining, splitIdx, Len(remaining))),
                           limit,
                           IF chunk # <<>> THEN Append(chunks, chunk)
                           ELSE chunks)
    ELSE IF remaining # <<>> THEN Append(chunks, remaining) ELSE chunks

\* a smartSplit that returns a long text whole
smartSplitNone(text, limit) == <<text>>

smartSplit(text, limit) == smartSplitFrom(text, limit, <<>>)

\* the loop of SplitForAudio over the sentences from index i on, and the
\* final append
RECURSIVE audioChunksFrom(_, _, _, _, _)
audioChunksFrom(sentences, i, limit, currentChunk, chunks) ==
    IF i > Len(sentences)
    THEN IF currentChunk # <<>> THEN Append(chunks, currentChunk) ELSE chunks
    ELSE LET sentence == TrimSpace(sentences[i])
             potentialLen == Len(currentChunk) + Len(sentence)
                                + (IF currentChunk # <<>> THEN 1 ELSE 0)
             saved == IF currentChunk # <<>> THEN Append(chunks, currentChunk)
                      ELSE chunks
         IN IF sentence = <<>>
            THEN audioChunksFrom(sentences, i + 1, limit, currentChunk, chunks)
            ELSE IF potentialLen <= limit
            THEN audioChunksFrom(sentences, i + 1, limit,
                                 IF currentChunk # <<>>
                                 THEN currentChunk \o <<" ">> \o sentence
                                 ELSE sentence,
                                 chunks)
            ELSE IF Len(sentence) > limit
            THEN audioChunksFrom(sentences, i + 1, limit, <<>>,
                                 saved \o smartSplit(sentence, limit))
            ELSE audioChunksFrom(sentences, i + 1, limit, sentence, saved)

\* a SplitForAudio without its short-text return
SplitForAudioNoFastPath(text, AudioChunkSize) ==
    IF TrimSpace(text) = <<>> THEN <<>>
    ELSE audioChunksFrom(splitIntoSentences(TrimSpace(text)), 1,
                         AudioChunkSize, <<>>, <<>>)

\* a SplitForAudio that drops the sentence after the first
SplitForAudioDropping(text, AudioChunkSize) ==
    LET sentences == splitIntoSentences(TrimSpace(text))
    IN IF TrimSpace(text) = <<>> THEN <<>>
       ELSE IF Len(TrimSpace(text)) <= AudioChunkSize THEN <<TrimSpace(text)>>
       ELSE audioChunksFrom(IF Len(sentences) > 1
                            THEN <<sentences[1]>> \o SubSeq(sentences, 3,
                                                             Len(sentences))
                            ELSE sentences,
                            1, AudioChunkSize, <<>>, <<>>)

SplitForAudio(text, AudioChunkSize) ==
    IF TrimSpace(text) = <<>> THEN <<>>
    ELSE IF Len(TrimSpace(text)) <= AudioChunkSize THEN <<TrimSpace(text)>>
    ELSE audioChunksFrom(splitIntoSentences(TrimSpace(text)), 1,
                         AudioChunkSize, <<>>, <<>>)

\* strings.Fields: the number of maximal runs of non-space characters
countWords(text) ==
    Cardinality({i \in 1..Len(text) :
                    /\ ~IsSpace(text[i])
                    /\ (i = 1 \/ IsSpace(text[i - 1]))})

\* estimateDuration = wordCount / 150 * 60 * 1.1 seconds, that is 0.44 s a
\* word; durations are kept in hundredths of a second
centisPerWord == 44

estimateDuration(text) == countWords(text) * centisPerWord

\* a segment; "sentences" counts the sentences joined into Text
Segment(currentSegment, currentDuration, n) ==
    [Text |-> TrimSpace(currentSegment),
     EstimatedDuration |-> currentDuration,
     sentences |-> n]

\* a loop that never flushes on the duration
flushNever(currentDuration, sentenceDuration, target) == FALSE

\* SplitForVideo: currentDuration > 0 &&
\*                currentDuration+sentenceDuration > tp.VideoSegmentDuration
flush(currentDuration, sentenceDuration, target) ==
    currentDuration > 0 /\ currentDuration + sentenceDuration > target

\* the loop of SplitForVideo over the sentences from index i on, and the
\* final append
RECURSIVE videoSegmentsFrom(_, _, _, _, _, _, _)
videoSegmentsFrom(sentences, i, target, currentSegment, currentDuration, n, segments) ==
    IF i > Len(sentences)
    THEN IF currentSegment # <<>>
         THEN Append(segments, Segment(currentSegment, currentDuration, n))
         ELSE segments
    ELSE LET sentence == sentences[i]
             sentenceDuration == estimateDuration(sentence)
         IN IF flush(currentDuration, sentenceDuration, target)
            THEN videoSegmentsFrom(
                     sentences, i + 1, target, sentence, sentenceDuration, 1,
                     IF currentSegment # <<>>
                     THEN Append(segments,
                                 Segment(currentSegment, currentDuration, n))
                     ELSE segments)
            ELSE videoSegmentsFrom(
                     sentences, i + 1, target,
                     IF currentSegment # <<>>
                     THEN currentSegment \o <<" ">> \o sentence
                     ELSE sentence,
                     currentDuration + sentenceDuration, n + 1, segments)

SplitForVideo(text, VideoSegmentDuration) ==
    IF TrimSpace(text) = <<>> THEN <<>>
    ELSE videoSegmentsFrom(splitIntoSentences(TrimSpace(text)), 1,
                           VideoSegmentDuration, <<>>, 0, 0, <<>>)

\* NewTextProcessor: MaxSubtitleLength: 100
MaxSubtitleLength == 100

\* strings.FieldsFunc(text, r == ',' || r == ';'): the maximal runs of
\* characters that are no separator
RECURSIVE fieldsFrom(_, _, _, _)
fieldsFrom(text, i, current, fields) ==
    IF i > Len(text)
    THEN IF current # <<>> THEN Append(fields, current) ELSE fields
    ELSE IF text[i] \in {",", ";"}
         THEN fieldsFrom(text, i + 1, <<>>,
                         IF current # <<>> THEN Append(fields, current)
                         ELSE fields)
         ELSE fieldsFrom(text, i + 1, Append(current, text[i]), fields)

\* the loop of splitByClauses from part i (from 0) on
RECURSIVE clausesFrom(_, _, _, _, _)
clausesFrom(parts, i, limit, currentMsg, chunks) ==
    IF i >= Len(parts)
    THEN IF currentMsg # <<>> THEN Append(chunks, currentMsg) ELSE chunks
    ELSE LET part == TrimSpace(parts[i + 1])
             suffix == IF i < Len(parts) - 1 THEN <<",">> ELSE <<>>
         IN IF Len(currentMsg) + Len(part) + Len(suffix) + 1 <= limit
            THEN clausesFrom(parts, i + 1, limit,
                             IF currentMsg # <<>>
                             THEN currentMsg \o <<" ">> \o part \o suffix
                             ELSE part \o suffix,
                             chunks)
            ELSE LET saved == IF currentMsg # <<>>
                              THEN Append(chunks, currentMsg) ELSE chunks
                 IN IF Len(part \o suffix) > limit
                    THEN clausesFrom(parts, i + 1, limit, <<>>,
                                     saved \o smartSplit(part \o suffix, limit))
                    ELSE clausesFrom(parts, i + 1, limit, part \o suffix,
                                     saved)

splitByClauses(text, limit) ==
    clausesFrom(fieldsFrom(text, 1, <<>>, <<>>), 0, limit, <<>>, <<>>)

\* the loop of SplitForSubtitles from sentence i (from 1) on
RECURSIVE subtitleChunksFrom(_, _, _, _)
subtitleChunksFrom(sentences, i, limit, chunks) ==
    IF i > Len(sentences) THEN chunks
    ELSE LET sentence == TrimSpace(sentences[i])
         IN IF Len(sentence) <= limit
            THEN subtitleChunksFrom(sentences, i + 1, limit,
                                    Append(chunks, sentence))
            ELSE subtitleChunksFrom(sentences, i + 1, limit,
                                    chunks \o splitByClauses(sentence, limit))

\* SplitForSubtitles, with tp.MaxSubtitleLength as limit
SplitForSubtitles(text, limit) ==
    IF TrimSpace(text) = <<>> THEN <<>>
    ELSE subtitleChunksFrom(splitIntoSentences(TrimSpace(text)), 1, limit,
                            <<>>)

\* the same step calling SplitForAudio instead
audioChunksOfByLimit(script, AudioChunkSize) ==
    SplitForAudio(script, AudioChunkSize)

\* the chunking the orchestrator's step 1 calls: SplitForSubtitles, whatever
\* tp.AudioChunkSize is
audioChunksOf(script, AudioChunkSize) ==
    SplitForSubtitles(script, MaxSubtitleLength)

\* the script of the end-to-end scenario, "One. Two. Three."
Script ==
    <<"O", "n", "e", ".", " ", "T", "w", "o", ".", " ",
      "T", "h", "r", "e", "e", ".">>

(***************************************************************************)
(* The job registry and the background task of one job.  A task reads and  *)
(* writes only the record of its own job id, always under h.jobsMux, and   *)
(* nothing deletes an entry of h.jobs; one job id is modelled.             *)
(***************************************************************************)
JobIds == {"job"}
\* a nil error
NoError == "nil"
\* no record stored under the job id
NoJob ==
    [Status |-> "none", Progress |-> 0, CurrentStep |-> "", VideoPath |-> "",
     Error |-> NoError]
\* maxRetries of generateSingleAudio and generateSingleVideo
maxRetries == 3

\* the indices of a batch: those of the shapes drawn and those of the
\* scenario's script
Units ==
    0..(Largest({MaxUnits,
                 Len(audioChunksOf(Script, Len(Script))),
                 Len(splitIntoSentences(Script))}) - 1)

\* The shapes a submitted script can have: how many chunks SplitForSubtitles
\* and how many segments SplitForVideo make of it.  Both trim the script and
\* return nothing for an empty one; SplitForVideo returns at least one
\* segment for any other script, SplitForSubtitles may still return none (a
\* long sentence of separators only).
ScriptShapes ==
    {sh \in [nChunks : 0..MaxUnits, nSegments : 0..MaxUnits] :
        sh.nSegments = 0 => sh.nChunks = 0}

\* req.VideoSource == "stock" selects the stock branch, anything else the
\* generated one
Requests ==
    {r \in [VideoSource : {"stock", "ai"}, nChunks : 0..MaxUnits,
            nSegments : 0..MaxUnits] :
        [nChunks |-> r.nChunks, nSegments |-> r.nSegments] \in ScriptShapes}

\* The two clip-provider calls: callVideoGenerationAPI as committed is a
\* placeholder that returns its "not implemented" error on every call;
\* "provider" is the call it stands in for, which may also succeed.
VideoAPIs == {"placeholder", "provider"}

Configs ==
    [MaxConcurrentTTSRequests : 1..MaxConcurrent,
     MaxConcurrentVideoRequests : 1..MaxConcurrent,
     videoAPI : VideoAPIs]

\* a forgotten updateStatus("Complete", 100)
CheckpointNoComplete(stage) ==
    CASE stage = "tempdir" -> 5
      [] stage = "chunking" -> 10
      [] stage = "speech" -> 20
      [] stage = "subtitles" -> 30
      [] stage = "audioMerge" -> 40
      [] stage = "probe" -> 50
      [] stage = "segment" -> 45
      [] stage = "prompts" -> 50
      [] stage = "clips" -> 55
      [] stage = "videoMerge" -> 80
      [] stage = "mux" -> 90
      [] stage = "concat" -> 95
      [] stage = "complete" -> 95

\* the checkpoints of the two steps of the generated branch exchanged
CheckpointSwapped(stage) ==
    CASE stage = "tempdir" -> 5
      [] stage = "chunking" -> 10
      [] stage = "speech" -> 20
      [] stage = "subtitles" -> 30
      [] stage = "audioMerge" -> 40
      [] stage = "probe" -> 50
      [] stage = "segment" -> 50
      [] stage = "prompts" -> 45
      [] stage = "clips" -> 55
      [] stage = "videoMerge" -> 80
      [] stage = "mux" -> 90
      [] stage = "concat" -> 95
      [] stage = "complete" -> 100

\* the progress argument of the updateStatus call that opens each stage
Checkpoint(stage) ==
    CASE stage = "tempdir" -> 5
      [] stage = "chunking" -> 10
      [] stage = "speech" -> 20
      [] stage = "subtitles" -> 30
      [] stage = "audioMerge" -> 40
      [] stage = "probe" -> 50
      [] stage = "segment" -> 45
      [] stage = "prompts" -> 50
      [] stage = "clips" -> 55
      [] stage = "videoMerge" -> 80
      [] stage = "mux" -> 90
      [] stage = "concat" -> 95
      [] stage = "complete" -> 100

\* the stages whose error the task answers with markJobFailed and return
FatalStages ==
    {"tempdir", "speech", "audioMerge", "probe", "stock", "prompts", "clips",
     "videoMerge", "mux", "concat"}

\* updateStatus: CurrentStep and Progress of the job's record, under the lock
updateStatus(j, stage) ==
    jobs' = [jobs EXCEPT ![j].CurrentStep = stage,
                         ![j].Progress = Checkpoint(stage)]

\* markJobFailed: Status and Error of the job's record, under the lock
markJobFailed(j, err) ==
    jobs' = [jobs EXCEPT ![j].Status = "failed", ![j].Error = err]

\* the step that opens a stage: updateStatus, then the stage runs
Enter(j, stage) ==
    /\ updateStatus(j, stage)
    /\ started' = [started EXCEPT ![j] = Append(@, stage)]
    /\ pc' = [pc EXCEPT ![j] = stage]
    /\ UNCHANGED failedStage

\* a missing return after markJobFailed: the task goes on with the stage
FailNoReturn(j, stage) ==
    /\ markJobFailed(j, stage)
    /\ failedStage' = [failedStage EXCEPT ![j] = stage]
    /\ UNCHANGED <<pc, started>>

\* the error only logged, as for the subtitle step: the task ends without
\* markJobFailed
FailNotRecorded(j, stage) ==
    /\ failedStage' = [failedStage EXCEPT ![j] = stage]
    /\ pc' = [pc EXCEPT ![j] = "end"]
    /\ UNCHANGED <<jobs, started>>

\* a fatal stage returned an error: markJobFailed(jobID, err); return
Fail(j, stage) ==
    /\ markJobFailed(j, stage)
    /\ failedStage' = [failedStage EXCEPT ![j] = stage]
    /\ pc' = [pc EXCEPT ![j] = "end"]
    /\ UNCHANGED started

(***************************************************************************)
(* The batch generators.  Each unit is a goroutine: "waiting" for the      *)
(* semaphore, "running" generateSingleAudio / generateSingleVideo, "done". *)
(* "firstFailed" is the unit that was the first in time to return an       *)
(* error, -1 while none has.                                               *)
(***************************************************************************)
NoBatch ==
    [kind |-> "none", n |-> 0, sem |-> 0, wg |-> 0, done |-> FALSE,
     errors |-> [u \in Units |-> NoError],
     paths |-> [u \in Units |-> ""],
     unit |-> [u \in Units |-> "idle"],
     firstFailed |-> -1]

NoReturn == [result |-> "none", cited |-> -1, missing |-> FALSE]

\* make(...) of the result slices, the semaphore, the WaitGroup / done
\* channel, and the go statement for every index
Launch(kind, n) ==
    [kind |-> kind, n |-> n, sem |-> 0,
     wg |-> IF kind = "audio" THEN n ELSE 0,
     done |-> FALSE,
     errors |-> [u \in Units |-> NoError],
     paths |-> [u \in Units |-> ""],
     unit |-> [u \in Units |-> IF u < n THEN "waiting" ELSE "idle"],
     firstFailed |-> -1]

Ceiling(kind) ==
    IF kind = "audio" THEN cfg.MaxConcurrentTTSRequests
    ELSE cfg.MaxConcurrentVideoRequests

\* What one pass of a unit's retry loop can meet.  The key pools are shared
\* with every other job's units, which may blacklist any key at any time, so
\* to one job GetRandomKey either yields a key or fails ("nokey"); the
\* provider call fails ("apifail") or succeeds; for speech the download may
\* exhaust its polls ("pollfail"); writing the file may fail ("savefail").
AttemptOutcomes(kind) ==
    IF kind = "audio" THEN {"nokey", "apifail", "pollfail", "savefail", "ok"}
    ELSE IF cfg.videoAPI = "placeholder" THEN {"nokey", "apifail"}
    ELSE {"nokey", "apifail", "savefail", "ok"}

\* the retry loop of generateSingleAudio / generateSingleVideo: the error it
\* returns, or NoError when it returns a path
RECURSIVE retryLoop(_, _)
retryLoop(outcomes, attempt) ==
    IF attempt >= maxRetries THEN "retries"
    ELSE LET o == outcomes[attempt + 1]
         IN CASE o = "nokey" -> "nokey"
              [] o = "apifail" -> retryLoop(outcomes, attempt + 1)
              [] o = "pollfail" -> retryLoop(outcomes, attempt + 1)
              [] o = "savefail" -> "save"
              [] o = "ok" -> NoError

generateSingle(outcomes) == retryLoop(outcomes, 0)

\* the file a unit returns: chunk_%03d.mp3 / segment_%03d_adjusted.mp4 of
\* its index
ArtifactPath(kind, index) ==
    IF kind = "audio" THEN "chunk_" \o ToString(index) \o ".mp3"
    ELSE "segment_" \o ToString(index) \o "_adjusted.mp4"

\* an off-by-one in the index that closes done: no goroutine ever does
closesDoneOffByOne(index, n) == index = n

\* GenerateVideos: if index == len(prompts)-1 { close(done) }
closesDone(index, n) == index = n - 1

\* the goroutine enters without taking a slot of the semaphore
UnitAcquireNoSem(j, u) ==
    /\ batch[j].unit[u] = "waiting"
    /\ batch' = [batch EXCEPT ![j].unit[u] = "running", ![j].sem = @ + 1]
    /\ UNCHANGED <<cfg, srtRet, jobs, req, pc, finalVideoPath, batchRet, started,
                   failedStage>>
    /\ UNCHANGED <<poolVars, clock, ret, auxVars>>

\* sem <- struct{}{}
UnitAcquire(j, u) ==
    /\ batch[j].unit[u] = "waiting"
    /\ batch[j].sem < Ceiling(batch[j].kind)
    /\ batch' = [batch EXCEPT ![j].unit[u] = "running", ![j].sem = @ + 1]
    /\ UNCHANGED <<cfg, srtRet, jobs, req, pc, finalVideoPath, batchRet, started,
                   failedStage>>
    /\ UNCHANGED <<poolVars, clock, ret, auxVars>>

\* generateSingle* returns; the goroutine stores the error or the path at its
\* index, closes done when it is the last index of GenerateVideos, releases
\* the semaphore and, in GenerateAudioChunks, calls wg.Done
UnitFinish(j, u) ==
    /\ batch[j].unit[u] = "running"
    /\ \E err \in {generateSingle(outcomes) :
                       outcomes \in [1..maxRetries ->
                                        AttemptOutcomes(batch[j].kind)]} :
          LET b == batch[j]
          IN batch' = [batch EXCEPT
                 ![j].errors[u] = err,
                 ![j].paths[u] = IF err = NoError
                                 THEN ArtifactPath(b.kind, u) ELSE "",
                 ![j].done = b.done \/ (b.kind = "video" /\ closesDone(u, b.n)),
                 ![j].sem = b.sem - 1,
                 ![j].wg = IF b.kind = "audio" THEN b.wg - 1 ELSE b.wg,
                 ![j].unit[u] = "done",
                 ![j].firstFailed = IF err # NoError /\ @ = -1 THEN u ELSE @]
    /\ UNCHANGED <<cfg, srtRet, jobs, req, pc, finalVideoPath, batchRet, started,
                   failedStage>>
    /\ UNCHANGED <<poolVars, clock, ret, auxVars>>

\* the scan reporting the unit that failed first in time
FirstErrorInTime(b) == b.firstFailed

\* the scan of errors after the wait: the first index holding an error
FirstError(b) ==
    IF \E u \in Units : u < b.n /\ b.errors[u] # NoError
    THEN CHOOSE u \in Units :
            /\ u < b.n /\ b.errors[u] # NoError
            /\ \A v \in Units : (v < b.n /\ b.errors[v] # NoError) => u <= v
    ELSE -1

\* what the batch call returns: the error citing the first failed index, or
\* the slice of paths ("missing": some index of it holds no path)
BatchReturn(b) ==
    IF FirstError(b) # -1
    THEN [result |-> "err", cited |-> FirstError(b), missing |-> FALSE]
    ELSE [result |-> "ok", cited |-> -1,
          missing |-> \E u \in Units : u < b.n /\ b.paths[u] = ""]

(***************************************************************************)
(* Generate and the steps of processVideoGeneration.                       *)
(***************************************************************************)
NoRequest == [VideoSource |-> "none", nChunks |-> 0, nSegments |-> 0]

JobInit ==
    /\ cfg \in Configs
    /\ jobs = [j \in JobIds |-> NoJob]
    /\ req = [j \in JobIds |-> NoRequest]
    /\ pc = [j \in JobIds |-> "none"]
    /\ finalVideoPath = [j \in JobIds |-> ""]
    /\ batch = [j \in JobIds |-> NoBatch]
    /\ batchRet = [j \in JobIds |-> NoReturn]
    /\ srtRet = [j \in JobIds |-> "none"]
    /\ started = [j \in JobIds |-> <<>>]
    /\ failedStage = [j \in JobIds |-> "none"]

\* an accepted submission: the record is stored, then the task is spawned
GenerateFor(j, r) ==
    /\ jobs[j] = NoJob
    /\ req' = [req EXCEPT ![j] = r]
    /\ jobs' = [jobs EXCEPT ![j] =
                   [Status |-> "processing", Progress |-> 0,
                    CurrentStep |-> "Initializing", VideoPath |-> "",
                    Error |-> NoError]]
    /\ pc' = [pc EXCEPT ![j] = "spawned"]
    /\ UNCHANGED <<cfg, srtRet, finalVideoPath, batch, batchRet, started, failedStage>>
    /\ UNCHANGED <<poolVars, clock, ret, auxVars>>

Generate(j) == \E r \in Requests : GenerateFor(j, r)

\* updateStatus("Creating temporary directories", 5)
TaskStart(j) ==
    /\ pc[j] = "spawned"
    /\ Enter(j, "tempdir")
    /\ UNCHANGED <<cfg, srtRet, req, finalVideoPath, batch, batchRet>>
    /\ UNCHANGED <<poolVars, clock, ret, auxVars>>

\* utils.CreateTempDir returns
CreateTempDir(j) ==
    /\ pc[j] = "tempdir"
    /\ \/ Fail(j, "tempdir")
       \/ Enter(j, "chunking")
    /\ UNCHANGED <<cfg, srtRet, req, finalVideoPath, batch, batchRet>>
    /\ UNCHANGED <<poolVars, clock, ret, auxVars>>

\* SplitForSubtitles, updateStatus(.., 20), and GenerateAudioChunks up to
\* wg.Wait()
StartAudioChunks(j) ==
    /\ pc[j] = "chunking"
    /\ Enter(j, "speech")
    /\ batch' = [batch EXCEPT ![j] = Launch("audio", req[j].nChunks)]
    /\ batchRet' = [batchRet EXCEPT ![j] = NoReturn]
    /\ UNCHANGED <<cfg, srtRet, req, finalVideoPath>>
    /\ UNCHANGED <<poolVars, clock, ret, auxVars>>

\* wg.Wait() returns, the errors are scanned, GenerateAudioChunks returns
GenerateAudioChunksReturn(j) ==
    /\ pc[j] = "speech"
    /\ batch[j].wg = 0
    /\ batchRet' = [batchRet EXCEPT ![j] = BatchReturn(batch[j])]
    /\ IF BatchReturn(batch[j]).result = "err"
       THEN Fail(j, "speech")
       ELSE Enter(j, "subtitles")
    /\ UNCHANGED <<cfg, srtRet, req, finalVideoPath, batch>>
    /\ UNCHANGED <<poolVars, clock, ret, auxVars>>

\* a subtitle step that ends the job on an error, like the other stages
GenerateSRTFatal(j) ==
    /\ pc[j] = "subtitles"
    /\ \/ /\ srtRet' = [srtRet EXCEPT ![j] = "err"]
          /\ Fail(j, "subtitles")
       \/ /\ srtRet' = [srtRet EXCEPT ![j] = "ok"]
          /\ Enter(j, "audioMerge")
    /\ UNCHANGED <<cfg, req, finalVideoPath, batch, batchRet>>
    /\ UNCHANGED <<poolVars, clock, ret, auxVars>>

\* GenerateSRT returns the path of the file or an error: os.Create or a
\* duration probe failed.  The error is logged and the task goes on either
\* way
GenerateSRT(j) ==
    /\ pc[j] = "subtitles"
    /\ \E r \in {"ok", "err"} : srtRet' = [srtRet EXCEPT ![j] = r]
    /\ Enter(j, "audioMerge")
    /\ UNCHANGED <<cfg, req, finalVideoPath, batch, batchRet>>
    /\ UNCHANGED <<poolVars, clock, ret, auxVars>>

\* a task that picks its video branch without looking at req.VideoSource
MergeAudioFilesAnyBranch(j) ==
    /\ pc[j] = "audioMerge"
    /\ \/ Fail(j, "audioMerge")
       \/ /\ req[j].nChunks > 0
          /\ \/ Enter(j, "probe")
             \/ Enter(j, "segment")
    /\ UNCHANGED <<cfg, srtRet, req, finalVideoPath, batch, batchRet>>
    /\ UNCHANGED <<poolVars, clock, ret, auxVars>>

\* MergeAudioFiles returns: an error for no paths, else what the encoder says
MergeAudioFiles(j) ==
    /\ pc[j] = "audioMerge"
    /\ \/ Fail(j, "audioMerge")
       \/ /\ req[j].nChunks > 0
          /\ IF req[j].VideoSource = "stock"
             THEN Enter(j, "probe")
             ELSE Enter(j, "segment")
    /\ UNCHANGED <<cfg, srtRet, req, finalVideoPath, batch, batchRet>>
    /\ UNCHANGED <<poolVars, clock, ret, auxVars>>

\* utils.GetVideoDuration(mergedAudioPath) returns
ProbeAudioDuration(j) ==
    /\ pc[j] = "probe"
    /\ \/ Fail(j, "probe")
       \/ /\ pc' = [pc EXCEPT ![j] = "stock"]
          /\ started' = [started EXCEPT ![j] = Append(@, "stock")]
          /\ UNCHANGED <<jobs, failedStage>>
    /\ UNCHANGED <<cfg, srtRet, req, finalVideoPath, batch, batchRet>>
    /\ UNCHANGED <<poolVars, clock, ret, auxVars>>

\* PrepareStockVideo returns
PrepareStockVideo(j) ==
    /\ pc[j] = "stock"
    /\ \/ Fail(j, "stock")
       \/ Enter(j, "mux")
    /\ UNCHANGED <<cfg, srtRet, req, finalVideoPath, batch, batchRet>>
    /\ UNCHANGED <<poolVars, clock, ret, auxVars>>

\* SplitForVideo, then updateStatus("Generating video prompts", 50)
SplitForVideoStep(j) ==
    /\ pc[j] = "segment"
    /\ Enter(j, "prompts")
    /\ UNCHANGED <<cfg, srtRet, req, finalVideoPath, batch, batchRet>>
    /\ UNCHANGED <<poolVars, clock, ret, auxVars>>

\* GenerateVideoPrompts returns (its error is always nil), updateStatus(..,
\* 55), and GenerateVideos up to <-done
StartVideos(j) ==
    /\ pc[j] = "prompts"
    /\ Enter(j, "clips")
    /\ batch' = [batch EXCEPT ![j] = Launch("video", req[j].nSegments)]
    /\ batchRet' = [batchRet EXCEPT ![j] = NoReturn]
    /\ UNCHANGED <<cfg, srtRet, req, finalVideoPath>>
    /\ UNCHANGED <<poolVars, clock, ret, auxVars>>

\* <-done returns, the errors are scanned, GenerateVideos returns.  The scan
\* races with the goroutines still running; it reads what they have stored
\* so far.
GenerateVideosReturn(j) ==
    /\ pc[j] = "clips"
    /\ batch[j].done
    /\ batchRet' = [batchRet EXCEPT ![j] = BatchReturn(batch[j])]
    /\ IF BatchReturn(batch[j]).result = "err"
       THEN Fail(j, "clips")
       ELSE Enter(j, "videoMerge")
    /\ UNCHANGED <<cfg, srtRet, req, finalVideoPath, batch>>
    /\ UNCHANGED <<poolVars, clock, ret, auxVars>>

\* MergeVideos returns.  videoPaths is the slice the goroutines store into:
\* an index still empty makes the encoder fail, one filled in since the
\* return is read as filled.
MergeVideos(j) ==
    /\ pc[j] = "videoMerge"
    /\ \/ Fail(j, "videoMerge")
       \/ /\ \A u \in Units : u < batch[j].n => batch[j].paths[u] # ""
          /\ Enter(j, "mux")
    /\ UNCHANGED <<cfg, srtRet, req, finalVideoPath, batch, batchRet>>
    /\ UNCHANGED <<poolVars, clock, ret, auxVars>>

\* ComposeVideoWithAudio returns
ComposeVideoWithAudio(j) ==
    /\ pc[j] = "mux"
    /\ \/ /\ Fail(j, "mux")
          /\ UNCHANGED finalVideoPath
       \/ /\ Enter(j, "concat")
          /\ finalVideoPath' = [finalVideoPath EXCEPT ![j] = "final_video.mp4"]
    /\ UNCHANGED <<cfg, srtRet, req, batch, batchRet>>
    /\ UNCHANGED <<poolVars, clock, ret, auxVars>>

\* the intro and outro files are looked up; with either present ConcatVideos
\* runs and returns; then updateStatus("Complete", 100)
IntroOutro(j) ==
    /\ pc[j] = "concat"
    /\ \E intro, outro \in BOOLEAN :
          IF intro \/ outro
          THEN \/ /\ Fail(j, "concat")
                  /\ UNCHANGED finalVideoPath
               \/ /\ Enter(j, "complete")
                  /\ finalVideoPath' =
                         [finalVideoPath EXCEPT ![j] = "final_complete.mp4"]
          ELSE /\ Enter(j, "complete")
               /\ UNCHANGED finalVideoPath
    /\ UNCHANGED <<cfg, srtRet, req, batch, batchRet>>
    /\ UNCHANGED <<poolVars, clock, ret, auxVars>>

\* the completion block: Status and VideoPath, under the lock
Complete(j) ==
    /\ pc[j] = "complete"
    /\ jobs' = [jobs EXCEPT ![j].Status = "completed",
                            ![j].VideoPath = finalVideoPath[j]]
    /\ pc' = [pc EXCEPT ![j] = "end"]
    /\ UNCHANGED <<cfg, srtRet, req, finalVideoPath, batch, batchRet, started,
                   failedStage>>
    /\ UNCHANGED <<poolVars, clock, ret, auxVars>>

\* one step of the task of job j
TaskStep(j) ==
    \/ TaskStart(j)
    \/ CreateTempDir(j)
    \/ StartAudioChunks(j)
    \/ GenerateAudioChunksReturn(j)
    \/ GenerateSRT(j)
    \/ MergeAudioFiles(j)
    \/ ProbeAudioDuration(j)
    \/ PrepareStockVideo(j)
    \/ SplitForVideoStep(j)
    \/ StartVideos(j)
    \/ GenerateVideosReturn(j)
    \/ MergeVideos(j)
    \/ ComposeVideoWithAudio(j)
    \/ IntroOutro(j)
    \/ Complete(j)

\* one step of goroutine u of the batch of job j
UnitStep(j, u) == UnitAcquire(j, u) \/ UnitFinish(j, u)

(***************************************************************************)
(* SpecPool: one pool under arbitrary calls and a ticking clock.           *)
(***************************************************************************)
PoolUnderTest == "tts"

SumUsage(usage) ==
    LET RECURSIVE Sum(_)
        Sum(S) == IF S = {} THEN 0
                  ELSE LET k == CHOOSE x \in S : TRUE
                       IN usage[k] + Sum(S \ {k})
    IN Sum(Keys)

PoolStateInit ==
    /\ usageCounts = [p \in PoolNames |-> [k \in Keys |-> 0]]
    /\ lastUsedTime = [p \in PoolNames |-> [k \in Keys |-> NoTime]]
    /\ blacklist = [p \in PoolNames |-> [k \in Keys |-> NoTime]]
    /\ promisedUntil = [p \in PoolNames |-> [k \in Keys |-> 0]]
    /\ lastMarkUntil = [p \in PoolNames |-> [k \in Keys |-> 0]]
    /\ clock = 0
    /\ ret = [op |-> "other", key |-> NoKey, checked |-> 0]

\* SpecPool starts with no job submitted and the default ceilings
PoolInit ==
    /\ PoolStateInit
    /\ JobInit
    /\ AuxInit
    /\ cfg = [MaxConcurrentTTSRequests |-> 1, MaxConcurrentVideoRequests |-> 1,
              videoAPI |-> "placeholder"]

PoolAcquire ==
    /\ SumUsage(usageCounts[PoolUnderTest]) < MaxAcquires
    /\ \E n1, n2, n3 \in Times, key \in Keys \cup {NoKey} :
          /\ clock <= n1 /\ n1 <= n2 /\ n2 <= n3
          /\ GetRandomKey(PoolUnderTest, key, n1, n2, n3)
          /\ clock' = n3
          /\ ret' = [op |-> "GetRandomKey", key |-> key, checked |-> n2]
    /\ UNCHANGED <<jobVars, auxVars>>

PoolMarkFailed ==
    \E key \in Keys, d \in 1..MaxCooldown :
        /\ clock + d <= MaxTime
        /\ MarkFailed(PoolUnderTest, key, d, clock)
        /\ ret' = [op |-> "other", key |-> NoKey, checked |-> 0]
        /\ UNCHANGED <<clock, jobVars, auxVars>>

PoolMarkSuccess ==
    \E key \in Keys :
        /\ MarkSuccess(PoolUnderTest, key)
        /\ ret' = [op |-> "other", key |-> NoKey, checked |-> 0]
        /\ UNCHANGED <<clock, jobVars, auxVars>>

Tick ==
    /\ clock < MaxTime
    /\ clock' = clock + 1
    /\ ret' = [op |-> "other", key |-> NoKey, checked |-> 0]
    /\ UNCHANGED <<poolVars, jobVars, auxVars>>

PoolNext == PoolAcquire \/ PoolMarkFailed \/ PoolMarkSuccess \/ Tick

SpecPool == PoolInit /\ [][PoolNext]_vars

(***************************************************************************)
(* SpecUsage: the pool of SpecPool under one more successful GetRandomKey, *)
(* each call reading the clock once it has the lock; client.acquired       *)
(* counts the calls that returned a key.                                   *)
(***************************************************************************)
UsageInit ==
    /\ PoolStateInit
    /\ JobInit
    /\ cfg = [MaxConcurrentTTSRequests |-> 1, MaxConcurrentVideoRequests |-> 1,
              videoAPI |-> "placeholder"]
    /\ worker = NoWorker
    /\ tp = NoText
    /\ stock = NoStock
    /\ client = [op |-> "pool", acquired |-> 0]

UsageAcquire ==
    /\ client.acquired <= MaxAcquires
    /\ \E key \in Keys \cup {NoKey} :
          /\ GetRandomKey(PoolUnderTest, key, clock, clock, clock)
          /\ ret' = [op |-> "GetRandomKey", key |-> key, checked |-> clock]
          /\ client' = [client EXCEPT !.acquired =
                                         IF key = NoKey THEN @ ELSE @ + 1]
    /\ UNCHANGED <<clock, jobVars, worker, tp, stock>>

UsageNext == UsageAcquire \/ PoolMarkFailed \/ PoolMarkSuccess \/ Tick

SpecUsage == UsageInit /\ [][UsageNext]_vars

(***************************************************************************)
(* SpecJob: one job from submission to its end, with its two batches.      *)
(* FairSpecJob adds that the task and every goroutine keep being           *)
(* scheduled and that every external call returns.                         *)
(***************************************************************************)
Init == PoolStateInit /\ JobInit /\ AuxInit

JobNext ==
    \E j \in JobIds :
        \/ Generate(j)
        \/ TaskStep(j)
        \/ \E u \in Units : UnitStep(j, u)

SpecJob == Init /\ [][JobNext]_vars

FairSpecJob ==
    /\ Init
    /\ [][JobNext]_vars
    /\ \A j \in JobIds :
          /\ WF_vars(TaskStep(j))
          /\ \A u \in Units : WF_vars(UnitStep(j, u))

(***************************************************************************)
(* SpecScript: the job of SpecJob submitted with the script "One. Two.     *)
(* Three.", by a TextProcessor built with a chunk size that holds the      *)
(* whole script and some segment duration.  FairSpecScript adds the        *)
(* scheduling of FairSpecJob.                                              *)
(***************************************************************************)
\* chunk sizes that hold the three sentences: the script's own length, and
\* the default of AUDIO_CHUNK_SIZE
ScriptLimits == {Len(Script), 4500}

\* segment durations in hundredths of a second, none a multiple of the 0.44 s
\* of a word; 550 is the default of VIDEO_SEGMENT_DURATION
ScriptTargets == {40, 80, 100, 550}

ScriptInit ==
    /\ PoolStateInit
    /\ JobInit
    /\ worker = NoWorker
    /\ client = NoClient
    /\ stock = NoStock
    /\ tp \in [op : {"new"}, AudioChunkSize : ScriptLimits,
               VideoSegmentDuration : ScriptTargets, text : {Script},
               chunks : {<<>>}, segments : {<<>>}]

\* what the task derives from req.Script: the chunks of step 1 and the
\* segments of SplitForVideo
ScriptRequest(source) ==
    [VideoSource |-> source,
     nChunks |-> Len(audioChunksOf(tp.text, tp.AudioChunkSize)),
     nSegments |-> Len(SplitForVideo(tp.text, tp.VideoSegmentDuration))]

ScriptGenerate(j) ==
    \E source \in {"stock", "ai"} : GenerateFor(j, ScriptRequest(source))

ScriptNext ==
    \E j \in JobIds :
        \/ ScriptGenerate(j)
        \/ TaskStep(j)
        \/ \E u \in Units : UnitStep(j, u)

SpecScript == ScriptInit /\ [][ScriptNext]_vars

FairSpecScript ==
    /\ ScriptInit
    /\ [][ScriptNext]_vars
    /\ \A j \in JobIds :
          /\ WF_vars(TaskStep(j))
          /\ \A u \in Units : WF_vars(UnitStep(j, u))

(***************************************************************************)
(* SpecServe: the HTTP handlers around one job.  Generate validates a      *)
(* submission and stores the record; GetStatus and Download look the       *)
(* record up under RLock, release the lock, and then read the fields of    *)
(* the record through the pointer, while the task writes them inside its   *)
(* own Lock sections.  These reads and writes are not ordered by the       *)
(* lock, so a section of the task is two stores into memory, and a read    *)
(* may fall between them: client.mem is the record as memory holds it,     *)
(* jobs the record as it is when the section's lock is released.           *)
(***************************************************************************)
\* MAX_TEXT_LENGTH, the default of cfg.MaxTextLength
MaxTextLength == 50000

\* a Download schedules a cleanup; at most MaxDownloads are followed
MaxDownloads == 1

\* len(req.Script) of the submissions drawn
ScriptLengths == {0, 1, MaxTextLength, MaxTextLength + 1}

\* req.SpeakingSpeed of the submissions drawn, in tenths; 0 is the zero value
\* of a request that names no speed
Speeds == {0, 4, 5, 20, 21}

Submissions ==
    [bound : BOOLEAN, scriptLen : ScriptLengths, speed : Speeds,
     VideoSource : {"stock", "ai"}]

\* a validation that takes the zero speed for a speed out of range
ValidateNoDefault(s) ==
    IF ~s.bound \/ s.scriptLen = 0 THEN "invalid"
    ELSE IF s.scriptLen > MaxTextLength THEN "tooLong"
    ELSE IF s.speed < 5 \/ s.speed > 20 THEN "speed"
    ELSE "accepted"

\* the checks of Generate, in their order, before the job id is made
Validate(s) ==
    IF ~s.bound \/ s.scriptLen = 0 THEN "invalid"
    ELSE IF s.scriptLen > MaxTextLength THEN "tooLong"
    ELSE LET SpeakingSpeed == IF s.speed = 0 THEN 10 ELSE s.speed
         IN IF SpeakingSpeed < 5 \/ SpeakingSpeed > 20 THEN "speed"
            ELSE "accepted"

NoSubmission == [bound |-> FALSE, scriptLen |-> 0, speed |-> 0,
                 VideoSource |-> "none"]

NoResponse ==
    [code |-> 0, Status |-> "", Progress |-> 0, CurrentStep |-> "",
     VideoURL |-> FALSE, Error |-> NoError, cleaned |-> FALSE]

\* the handler built with one request at a time of either kind of pool
ServeInit ==
    /\ PoolStateInit
    /\ JobInit
    /\ cfg.MaxConcurrentTTSRequests = 1
    /\ cfg.MaxConcurrentVideoRequests = 1
    /\ worker = NoWorker
    /\ tp = NoText
    /\ stock = NoStock
    /\ client = [op |-> "serve", sub |-> NoSubmission, verdict |-> "none",
                 mem |-> NoJob, rd |-> "idle", resp |-> NoResponse,
                 timers |-> 0, downloads |-> 0, cleaned |-> FALSE]

\* a POST /api/generate arrives and is validated; a rejected one is answered
\* with 400 and nothing else happens
Receive ==
    /\ client.verdict # "accepted"
    /\ \E s \in Submissions :
          client' = [client EXCEPT !.sub = s, !.verdict = Validate(s)]
    /\ UNCHANGED <<poolVars, clock, ret, jobVars, worker, tp, stock>>

\* the accepted submission: the record is stored under the lock, then the
\* go statement; the script has one chunk and one segment
ServeGenerate(j) ==
    /\ client.verdict = "accepted"
    /\ GenerateFor(j, [VideoSource |-> client.sub.VideoSource,
                       nChunks |-> 1, nSegments |-> 1])

\* the fields of JobStatus in the order the sections of the task store them
FieldOrder == <<"CurrentStep", "Progress", "Status", "VideoPath", "Error">>

\* the record a read through the pointer finds
Mem(j) == IF client.mem = NoJob THEN jobs[j] ELSE client.mem

\* one store of the section in progress: the record as built by Generate
\* before it is put in the map, then one field at a time in program order
StoreField(j) ==
    /\ client.mem # jobs[j]
    /\ client' =
          [client EXCEPT !.mem =
              IF client.mem = NoJob THEN jobs[j]
              ELSE LET i == CHOOSE i \in 1..Len(FieldOrder) :
                               /\ client.mem[FieldOrder[i]]
                                     # jobs[j][FieldOrder[i]]
                               /\ \A k \in 1..(i - 1) :
                                     client.mem[FieldOrder[k]]
                                        = jobs[j][FieldOrder[k]]
                   IN [client.mem EXCEPT ![FieldOrder[i]] =
                                            jobs[j][FieldOrder[i]]]]
    /\ UNCHANGED <<poolVars, clock, ret, jobVars, worker, tp, stock>>

\* a step of the task: its previous section has left the lock
ServeTaskStep(j) == client.mem = jobs[j] /\ TaskStep(j)

\* GetStatus: the map lookup under RLock
StatusLookup(j) ==
    /\ client.rd = "idle"
    /\ client' =
          IF jobs[j] = NoJob
          THEN [client EXCEPT !.rd = "done",
                              !.resp = [NoResponse EXCEPT !.code = 404]]
          ELSE [client EXCEPT !.rd = "Status",
                              !.resp = [NoResponse EXCEPT
                                           !.code = 200,
                                           !.cleaned = client.cleaned]]
    /\ UNCHANGED <<poolVars, clock, ret, jobVars, worker, tp, stock>>

\* GetStatus: the reads of job.Status, job.Progress, job.CurrentStep for the
\* response, of job.Status and job.VideoPath for the download reference, and
\* of job.Error, one read a step
StatusRead(j) ==
    /\ client.rd \in {"Status", "Progress", "CurrentStep", "Status2",
                      "VideoPath", "Error"}
    /\ client' =
          CASE client.rd = "Status" ->
                  [client EXCEPT !.resp.Status = Mem(j).Status,
                                 !.rd = "Progress"]
            [] client.rd = "Progress" ->
                  [client EXCEPT !.resp.Progress = Mem(j).Progress,
                                 !.rd = "CurrentStep"]
            [] client.rd = "CurrentStep" ->
                  [client EXCEPT !.resp.CurrentStep = Mem(j).CurrentStep,
                                 !.rd = "Status2"]
            [] client.rd = "Status2" ->
                  [client EXCEPT !.rd = IF Mem(j).Status = "completed"
                                        THEN "VideoPath" ELSE "Error"]
            [] client.rd = "VideoPath" ->
                  [client EXCEPT !.resp.VideoURL = Mem(j).VideoPath # "",
                                 !.rd = "Error"]
            [] client.rd = "Error" ->
                  [client EXCEPT !.resp.Error = Mem(j).Error,
                                 !.rd = "done"]
    /\ UNCHANGED <<poolVars, clock, ret, jobVars, worker, tp, stock>>

\* the response is sent; the next query may come
StatusReturn ==
    /\ client.rd = "done"
    /\ client' = [client EXCEPT !.rd = "idle", !.resp = NoResponse]
    /\ UNCHANGED <<poolVars, clock, ret, jobVars, worker, tp, stock>>

\* Download of a job found completed with a path: the file is streamed and
\* ScheduleCleanup starts its sleep.  The two fields are read after the lock
\* is released; reading both in one step loses no outcome, the path being
\* stored after the status and neither changing afterwards.
Download(j) ==
    /\ jobs[j] # NoJob
    /\ Mem(j).Status = "completed"
    /\ Mem(j).VideoPath # ""
    /\ client.downloads < MaxDownloads
    /\ client' = [client EXCEPT !.timers = @ + 1, !.downloads = @ + 1]
    /\ UNCHANGED <<poolVars, clock, ret, jobVars, worker, tp, stock>>

\* time.Sleep(1 * time.Hour) returns and CleanupJobFiles removes the job's
\* directory under TempDir; h.jobs is not touched
CleanupJobFiles(j) ==
    /\ client.timers > 0
    /\ client' = [client EXCEPT !.timers = @ - 1, !.cleaned = TRUE]
    /\ UNCHANGED <<poolVars, clock, ret, jobVars, worker, tp, stock>>

ServeNext ==
    \/ Receive
    \/ StatusReturn
    \/ \E j \in JobIds :
          \/ ServeGenerate(j)
          \/ StoreField(j)
          \/ ServeTaskStep(j)
          \/ \E u \in Units : UnitStep(j, u)
          \/ StatusLookup(j)
          \/ StatusRead(j)
          \/ Download(j)
          \/ CleanupJobFiles(j)

SpecServe == ServeInit /\ [][ServeNext]_vars

(***************************************************************************)
(* SpecText: a TextProcessor built with some chunk size and segment        *)
(* duration, and one call of SplitForAudio or SplitForVideo on a script.   *)
(***************************************************************************)
\* every string over Chars of length at most n
RECURSIVE StringsUpTo(_)
StringsUpTo(n) ==
    IF n = 0 THEN {<<>>}
    ELSE LET shorter == StringsUpTo(n - 1)
         IN shorter \cup {Append(s, c) : s \in shorter, c \in Chars}

Scripts == StringsUpTo(MaxLen)

\* segment durations a TextProcessor is built with, in hundredths of a
\* second (any positive value passes Config.Validate)
Targets == {40, 100, 150}

TextInit ==
    /\ PoolStateInit
    /\ JobInit
    /\ cfg = [MaxConcurrentTTSRequests |-> 1, MaxConcurrentVideoRequests |-> 1,
              videoAPI |-> "placeholder"]
    /\ worker = NoWorker
    /\ client = NoClient
    /\ stock = NoStock
    /\ tp \in [op : {"new"}, AudioChunkSize : 1..MaxLimit,
               VideoSegmentDuration : Targets, text : Scripts,
               chunks : {<<>>}, segments : {<<>>}]

CallSplitForAudio ==
    /\ tp.op = "new"
    /\ tp' = [tp EXCEPT !.op = "SplitForAudio",
                        !.chunks = SplitForAudio(tp.text, tp.AudioChunkSize)]
    /\ UNCHANGED <<poolVars, clock, ret, jobVars, worker, client, stock>>

CallSplitForVideo ==
    /\ tp.op = "new"
    /\ tp' = [tp EXCEPT !.op = "SplitForVideo",
                        !.segments = SplitForVideo(tp.text,
                                                   tp.VideoSegmentDuration)]
    /\ UNCHANGED <<poolVars, clock, ret, jobVars, worker, client, stock>>

TextNext == CallSplitForAudio \/ CallSplitForVideo

SpecText == TextInit /\ [][TextNext]_vars

(***************************************************************************)
(* SpecSubtitle: a TextProcessor with some MaxSubtitleLength, and one call *)
(* of SplitForSubtitles on a script.                                       *)
(***************************************************************************)
SubtitleInit ==
    /\ PoolStateInit
    /\ JobInit
    /\ cfg = [MaxConcurrentTTSRequests |-> 1, MaxConcurrentVideoRequests |-> 1,
              videoAPI |-> "placeholder"]
    /\ worker = NoWorker
    /\ client = NoClient
    /\ stock = NoStock
    /\ tp \in [op : {"new"}, MaxSubtitleLength : 1..MaxLimit, text : Scripts,
               chunks : {<<>>}]

CallSplitForSubtitles ==
    /\ tp.op = "new"
    /\ tp' = [tp EXCEPT !.op = "SplitForSubtitles",
                        !.chunks = SplitForSubtitles(tp.text,
                                                     tp.MaxSubtitleLength)]
    /\ UNCHANGED <<poolVars, clock, ret, jobVars, worker, client, stock>>

SubtitleNext == CallSplitForSubtitles

SpecSubtitle == SubtitleInit /\ [][SubtitleNext]_vars

(***************************************************************************)
(* SpecSmart: smartSplit pass by pass, on any text and limit.              *)
(***************************************************************************)
MaxSmartLen == 4

SmartTexts == StringsUpTo(MaxSmartLen)

SmartInit ==
    /\ PoolStateInit
    /\ JobInit
    /\ cfg = [MaxConcurrentTTSRequests |-> 1, MaxConcurrentVideoRequests |-> 1,
              videoAPI |-> "placeholder"]
    /\ worker = NoWorker
    /\ client = NoClient
    /\ stock = NoStock
    /\ \E text \in SmartTexts, limit \in 1..MaxLimit :
          tp = [op |-> "smartSplit", pc |-> "loop", limit |-> limit,
                text |-> text, remaining |-> text, chunks |-> <<>>,
                before |-> <<>>, splitIdx |-> -1, passes |-> 0]

\* one pass of for len(remaining) > limit
SmartSplitPass ==
    /\ tp.op = "smartSplit" /\ tp.pc = "loop"
    /\ Len(tp.remaining) > tp.limit
    /\ LET splitIdx == splitPoint(tp.remaining, tp.limit)
           chunk == TrimSpace(Slice(tp.remaining, 0, splitIdx))
       IN tp' = [tp EXCEPT
              !.before = tp.remaining, !.splitIdx = splitIdx,
              !.passes = @ + 1,
              !.chunks = IF chunk # <<>> THEN Append(@, chunk) ELSE @,
              !.remaining = TrimSpace(Slice(tp.remaining, splitIdx,
                                            Len(tp.remaining)))]
    /\ UNCHANGED <<poolVars, clock, ret, jobVars, worker, client, stock>>

\* the loop is left, the rest is appended and chunks returned
SmartSplitReturn ==
    /\ tp.op = "smartSplit" /\ tp.pc = "loop"
    /\ ~(Len(tp.remaining) > tp.limit)
    /\ tp' = [tp EXCEPT !.pc = "done",
                        !.chunks = IF tp.remaining # <<>>
                                   THEN Append(@, tp.remaining) ELSE @]
    /\ UNCHANGED <<poolVars, clock, ret, jobVars, worker, client, stock>>

SmartStep == SmartSplitPass \/ SmartSplitReturn

SmartNext == SmartStep

SpecSmart == SmartInit /\ [][SmartNext]_vars

\* the goroutine running smartSplit keeps being scheduled
FairSpecSmart == SmartInit /\ [][SmartNext]_vars /\ WF_vars(SmartStep)

(***************************************************************************)
(* SpecSentences: one call of splitIntoSentences on a text with narrow and *)
(* full-width terminators.                                                 *)
(***************************************************************************)
MaxSentenceLen == 4

SentenceChars == {"a", " ", ".", "fullquery"}

\* every string over SentenceChars of length at most n
RECURSIVE SentenceTextsUpTo(_)
SentenceTextsUpTo(n) ==
    IF n = 0 THEN {<<>>}
    ELSE LET shorter == SentenceTextsUpTo(n - 1)
         IN shorter \cup {Append(s, c) : s \in shorter, c \in SentenceChars}

SentenceTexts == SentenceTextsUpTo(MaxSentenceLen)

SentencesInit ==
    /\ PoolStateInit
    /\ JobInit
    /\ cfg = [MaxConcurrentTTSRequests |-> 1, MaxConcurrentVideoRequests |-> 1,
              videoAPI |-> "placeholder"]
    /\ worker = NoWorker
    /\ client = NoClient
    /\ stock = NoStock
    /\ \E text \in SentenceTexts :
          tp = [op |-> "new", text |-> text, sentences |-> <<>>]

CallSplitIntoSentences ==
    /\ tp.op = "new"
    /\ tp' = [tp EXCEPT !.op = "splitIntoSentences",
                        !.sentences = splitIntoSentences(tp.text)]
    /\ UNCHANGED <<poolVars, clock, ret, jobVars, worker, client, stock>>

SentencesNext == CallSplitIntoSentences

SpecSentences == SentencesInit /\ [][SentencesNext]_vars

(***************************************************************************)
(* SpecUnit: one goroutine inside generateSingleAudio or                   *)
(* generateSingleVideo, step by step against the key pool of its service,  *)
(* while the other goroutines using that pool acquire and blacklist keys.  *)
(* Their calls are taken where the goroutine is about to read the pool,    *)
(* the only place where it can see them; worker.others counts them, at     *)
(* most MaxOthers.                                                         *)
(* Time is in seconds; it passes while the goroutine sleeps and while a    *)
(* provider call that runs into the HTTP client's timeout is pending.      *)
(***************************************************************************)
\* MarkFailed(apiKey, 60 s) in generateSingleAudio
ttsCooldown == 60
\* MarkFailed(apiKey, 120 s) in generateSingleVideo
videoCooldown == 120
\* maxRetries of downloadAudioWithRetry
downloadMaxRetries == 10
\* retryInterval of downloadAudioWithRetry, seconds
retryInterval == 5
\* the sleep after a download that failed on all its attempts, seconds
downloadBackoff == 2
\* the HTTP client timeouts of the two services, seconds
ttsTimeout == 120
videoTimeout == 600

\* the pool a service was built with
PoolOf(kind) == IF kind = "audio" THEN "tts" ELSE "video"

\* both services' cooldowns exchanged
CooldownSwapped(kind) == IF kind = "audio" THEN videoCooldown ELSE ttsCooldown

Cooldown(kind) == IF kind = "audio" THEN ttsCooldown ELSE videoCooldown

\* how long a provider call can take: it answers at once, or the client
\* gives up at its timeout, which is an error of the call
CallDurations(kind) ==
    IF kind = "audio" THEN {0, ttsTimeout}
    ELSE IF cfg.videoAPI = "placeholder" THEN {0}
    ELSE {0, videoTimeout}

\* what a provider call can answer
CallOutcomes(kind) ==
    IF kind = "video" /\ cfg.videoAPI = "placeholder" THEN {"apifail"}
    ELSE {"apifail", "ok"}

\* time.Sleep after a failed provider call: (attempt+1) s for speech,
\* (attempt+1)*2 s for clips
Backoff(kind, attempt) ==
    IF kind = "audio" THEN attempt + 1 ELSE (attempt + 1) * 2

\* the download loop going one round too far
pollsExhaustedOffByOne(polls) == polls > downloadMaxRetries

\* downloadAudioWithRetry: attempt < maxRetries is false
pollsExhausted(polls) == polls >= downloadMaxRetries

StartWorker(kind) ==
    [kind |-> kind, pc |-> "acquire", attempt |-> 0, key |-> NoKey,
     acquires |-> 0, calls |-> 0, okCalls |-> 0, polls |-> 0, fetches |-> 0,
     markedAt |-> NoTime, lastErr |-> NoError, err |-> NoError,
     others |-> 0]

UnitInit ==
    /\ PoolStateInit
    /\ JobInit
    /\ cfg.MaxConcurrentTTSRequests = 1
    /\ cfg.MaxConcurrentVideoRequests = 1
    /\ worker \in {StartWorker(kind) : kind \in {"audio", "video"}}
    /\ tp = NoText
    /\ client = NoClient
    /\ stock = NoStock

\* continue: the next pass of the for loop, or the return after it
NextAttempt(w, lastErr, slept) ==
    /\ worker' = [w EXCEPT !.attempt = @ + 1,
                           !.lastErr = lastErr,
                           !.pc = IF w.attempt + 1 < maxRetries
                                  THEN "acquire" ELSE "done",
                           !.err = IF w.attempt + 1 < maxRetries
                                   THEN NoError ELSE "retries"]
    /\ clock' = clock + slept

\* a unit that sits out the backoff and tries again when no key is free
WorkerAcquireWaiting ==
    /\ worker.kind # "none" /\ worker.pc = "acquire"
    /\ \E key \in Keys \cup {NoKey} :
          /\ GetRandomKey(PoolOf(worker.kind), key, clock, clock, clock)
          /\ IF key = NoKey
             THEN NextAttempt([worker EXCEPT !.acquires = @ + 1], "nokey",
                              Backoff(worker.kind, worker.attempt))
             ELSE /\ worker' = [worker EXCEPT !.pc = "call", !.key = key,
                                              !.acquires = @ + 1]
                  /\ UNCHANGED clock
    /\ UNCHANGED <<ret, jobVars, tp, client, stock>>

\* apiKey, err := apiPool.GetRandomKey(); on an error the unit returns
WorkerAcquire ==
    /\ worker.kind # "none" /\ worker.pc = "acquire"
    /\ \E key \in Keys \cup {NoKey} :
          /\ GetRandomKey(PoolOf(worker.kind), key, clock, clock, clock)
          /\ worker' = IF key = NoKey
                       THEN [worker EXCEPT !.pc = "done", !.err = "nokey",
                                           !.acquires = @ + 1]
                       ELSE [worker EXCEPT !.pc = "call", !.key = key,
                                           !.acquires = @ + 1]
    /\ UNCHANGED <<clock, ret, jobVars, tp, client, stock>>

\* the provider call returns: on an error MarkFailed, the sleep and continue;
\* else MarkSuccess and on to the download (speech) or the file (clips)
WorkerCall ==
    /\ worker.kind # "none" /\ worker.pc = "call"
    /\ \E outcome \in CallOutcomes(worker.kind),
          dur \in CallDurations(worker.kind) :
          LET w == [worker EXCEPT !.calls = @ + 1]
              now == clock + dur
          IN IF outcome = "apifail"
             THEN /\ MarkFailed(PoolOf(w.kind), w.key, Cooldown(w.kind), now)
                  /\ NextAttempt([w EXCEPT !.markedAt = now], "api",
                                 dur + Backoff(w.kind, w.attempt))
             ELSE /\ dur = 0
                  /\ MarkSuccess(PoolOf(w.kind), w.key)
                  /\ worker' = [w EXCEPT !.okCalls = @ + 1, !.polls = 0,
                                         !.pc = IF w.kind = "audio"
                                                THEN "poll" ELSE "save"]
                  /\ clock' = now
    /\ UNCHANGED <<ret, jobVars, tp, client, stock>>

\* one round of downloadAudioWithRetry: downloadAudio returns; on an error
\* the next round after retryInterval, or after the last round the error,
\* the 2 s sleep and continue
WorkerFetch ==
    /\ worker.kind # "none" /\ worker.pc = "poll"
    /\ LET w == [worker EXCEPT !.polls = @ + 1, !.fetches = @ + 1]
       IN \/ /\ worker' = [w EXCEPT !.pc = "save"]
             /\ UNCHANGED clock
          \/ IF pollsExhausted(w.polls)
             THEN NextAttempt(w, "download", downloadBackoff)
             ELSE /\ worker' = w
                  /\ clock' = clock + retryInterval
    /\ UNCHANGED <<poolVars, ret, jobVars, tp, client, stock>>

\* saveAudioFile / saveVideoFile and adjustVideoDuration return
WorkerSave ==
    /\ worker.kind # "none" /\ worker.pc = "save"
    /\ \/ worker' = [worker EXCEPT !.pc = "done", !.err = NoError]
       \/ worker' = [worker EXCEPT !.pc = "done", !.err = "save"]
    /\ UNCHANGED <<poolVars, clock, ret, jobVars, tp, client, stock>>

WorkerStep == WorkerAcquire \/ WorkerCall \/ WorkerFetch \/ WorkerSave

\* another goroutine of the same service takes a key
OtherAcquire ==
    /\ worker.kind # "none" /\ worker.pc = "acquire"
    /\ worker.others < MaxOthers
    /\ \E key \in Keys \cup {NoKey} :
          GetRandomKey(PoolOf(worker.kind), key, clock, clock, clock)
    /\ worker' = [worker EXCEPT !.others = @ + 1]
    /\ UNCHANGED <<clock, ret, jobVars, tp, client, stock>>

\* another goroutine of the same service blacklists the key it used
OtherMarkFailed ==
    /\ worker.kind # "none" /\ worker.pc = "acquire"
    /\ worker.others < MaxOthers
    /\ \E key \in Keys :
          MarkFailed(PoolOf(worker.kind), key, Cooldown(worker.kind), clock)
    /\ worker' = [worker EXCEPT !.others = @ + 1]
    /\ UNCHANGED <<clock, ret, jobVars, tp, client, stock>>

UnitNext == WorkerStep \/ OtherAcquire \/ OtherMarkFailed

SpecUnit == UnitInit /\ [][UnitNext]_vars

\* the goroutine keeps being scheduled and its calls return
FairSpecUnit == UnitInit /\ [][UnitNext]_vars /\ WF_vars(WorkerStep)

(***************************************************************************)
(* The stock branch: StockVideoService.PrepareStockVideo on the length of  *)
(* the merged narration, then the mux.  Lengths of media are in            *)
(* milliseconds, ffprobe reporting fractions of a second.                  *)
(***************************************************************************)
\* the most clips the search selects and PrepareStockVideo downloads
MaxClips == 2
\* the most probes of a clip that fail inside the extension loop
MaxProbeFailures == 1

\* const transitionDuration = 1.0, and the 1.0 handed to the merge
transitionDuration == 1000
\* safeTargetDuration := targetDuration + 5.0
extensionMargin == 5000
\* utils.TrimVideo(mergedPath, outputPath, targetDuration+2.0)
fixedSafetyMargin == 2000
\* if len(finalInputPaths) > 100 { break }
maxSegments == 100

\* what ffprobe says of a downloaded clip: one as long as a transition, and
\* one of the five seconds the search asks for
ClipDurations == {1000, 5000}
\* what ffprobe says of the merged narration
AudioDurations == {3004, 600000}

\* fmt.Sprintf("%.2f", d) as ffmpeg reads it back: the nearest hundredth of
\* a second; a half falls either way with the binary value of d
Hundredths(ms) ==
    LET down == ms - (ms % 10)
    IN IF ms % 10 < 5 THEN {down}
       ELSE IF ms % 10 > 5 THEN {down + 10}
       ELSE {down, down + 10}

Shorter(a, b) == IF a < b THEN a ELSE b

\* the effective duration without the overlap of the joins
currentEffectiveNoOverlap(raw, count) == raw

\* currentRawDuration - float64(currentCount-1)*transitionDuration
currentEffective(raw, count) == raw - (count - 1) * transitionDuration

RECURSIVE SumDurations(_)
SumDurations(paths) ==
    IF paths = <<>> THEN 0 ELSE Head(paths) + SumDurations(Tail(paths))

StockInit ==
    /\ PoolStateInit
    /\ JobInit
    /\ cfg.MaxConcurrentTTSRequests = 1
    /\ cfg.MaxConcurrentVideoRequests = 1
    /\ worker = NoWorker
    /\ tp = NoText
    /\ client = NoClient
    /\ \E audio \in AudioDurations :
          stock = [op |-> "stock", pc |-> "search", target |-> audio,
                   inputPaths |-> <<>>, downloads |-> 0, path |-> "none",
                   count |-> 0, raw |-> 0, actual |-> 0, rounds |-> 0,
                   probeFailures |-> 0, trimTo |-> 0, video |-> 0,
                   final |-> 0, err |-> NoError]

StockFrame == UNCHANGED <<poolVars, clock, ret, jobVars, worker, tp, client>>

StockFail(msg) == stock' = [stock EXCEPT !.pc = "failed", !.err = msg]

\* PrepareStockVideo up to the merge: the search answers with one clip or
\* more, and each is downloaded; an error of either ends the preparation
SearchAndDownload ==
    /\ stock.op = "stock" /\ stock.pc = "search"
    /\ \/ StockFail("search")
       \/ StockFail("download")
       \/ \E n \in 1..MaxClips : \E paths \in [1..n -> ClipDurations] :
             stock' = [stock EXCEPT !.pc = "merge", !.inputPaths = paths,
                                    !.downloads = n]
    /\ StockFrame

\* a single clip trimmed to the target plus the margin of the other path
loopVideoToDurationWithMargin ==
    /\ stock.op = "stock" /\ stock.pc = "merge"
    /\ Len(stock.inputPaths) = 1
    /\ \/ StockFail("loop")
       \/ LET duration == stock.inputPaths[1]
              loops == (stock.target \div duration) + 1
          IN \E t \in Hundredths(stock.target + fixedSafetyMargin) :
                stock' = [stock EXCEPT !.pc = "prepared", !.path = "single",
                                       !.count = loops,
                                       !.raw = loops * duration,
                                       !.actual = loops * duration,
                                       !.trimTo = t,
                                       !.video = Shorter(loops * duration, t)]
    /\ StockFrame

\* a loop of int(target/duration) copies, without the one that overshoots
loopVideoToDurationNoSurplus ==
    /\ stock.op = "stock" /\ stock.pc = "merge"
    /\ Len(stock.inputPaths) = 1
    /\ \/ StockFail("loop")
       \/ LET duration == stock.inputPaths[1]
              loops == stock.target \div duration
          IN \E t \in Hundredths(stock.target) :
                stock' = [stock EXCEPT !.pc = "prepared", !.path = "single",
                                       !.count = loops,
                                       !.raw = loops * duration,
                                       !.actual = loops * duration,
                                       !.trimTo = t,
                                       !.video = Shorter(loops * duration, t)]
    /\ StockFrame

\* mergeVideosWithTransition on one clip, loopVideoToDuration: the probe, the
\* list or the concat fails, or the clip is repeated int(target/duration)+1
\* times and the whole trimmed to the target
loopVideoToDuration ==
    /\ stock.op = "stock" /\ stock.pc = "merge"
    /\ Len(stock.inputPaths) = 1
    /\ \/ StockFail("loop")
       \/ LET duration == stock.inputPaths[1]
              loops == (stock.target \div duration) + 1
          IN \E t \in Hundredths(stock.target) :
                stock' = [stock EXCEPT !.pc = "prepared", !.path = "single",
                                       !.count = loops,
                                       !.raw = loops * duration,
                                       !.actual = loops * duration,
                                       !.trimTo = t,
                                       !.video = Shorter(loops * duration, t)]
    /\ StockFrame

\* mergeVideosWithTransition on several clips, up to the loop: a failed probe
\* is an error; else the effective duration decides whether to extend
TotalDuration ==
    /\ stock.op = "stock" /\ stock.pc = "merge"
    /\ Len(stock.inputPaths) > 1
    /\ \/ StockFail("probe")
       \/ LET total == SumDurations(stock.inputPaths)
              n == Len(stock.inputPaths)
          IN stock' = [stock EXCEPT
                 !.path = "multi", !.count = n, !.raw = total,
                 !.actual = total,
                 !.pc = IF currentEffective(total, n)
                             < stock.target + extensionMargin
                        THEN "extend" ELSE "assemble"]
    /\ StockFrame

\* one pass of the extension loop: a clip of inputPaths at random is
\* appended, its probe counting as 0 when it fails; the loop is left when
\* there are more than 100 segments or the effective duration suffices
ExtendStep ==
    /\ stock.op = "stock" /\ stock.pc = "extend"
    /\ \E randomIdx \in 1..Len(stock.inputPaths) :
       \E probed \in {TRUE, FALSE} :
          /\ ~probed => stock.probeFailures < MaxProbeFailures
          /\ LET duration == IF probed THEN stock.inputPaths[randomIdx] ELSE 0
                 raw == stock.raw + duration
                 count == stock.count + 1
             IN stock' = [stock EXCEPT
                    !.raw = raw, !.count = count,
                    !.actual = @ + stock.inputPaths[randomIdx],
                    !.rounds = @ + 1,
                    !.probeFailures = IF probed THEN @ ELSE @ + 1,
                    !.pc = IF count > maxSegments
                              \/ ~(currentEffective(raw, count)
                                      < stock.target + extensionMargin)
                           THEN "assemble" ELSE "extend"]
    /\ StockFrame

\* utils.MergeVideosWithTransition on finalInputPaths, each join overlapping
\* by the transition, then utils.TrimVideo to targetDuration+2.0
AssembleAndTrim ==
    /\ stock.op = "stock" /\ stock.pc = "assemble"
    /\ \/ StockFail("merge")
       \/ LET merged == stock.actual - (stock.count - 1) * transitionDuration
          IN \E t \in Hundredths(stock.target + fixedSafetyMargin) :
                stock' = [stock EXCEPT !.pc = "prepared", !.trimTo = t,
                                       !.video = Shorter(merged, t)]
    /\ StockFrame

\* ComposeVideoWithAudio, utils.CombineAudioVideo with -shortest: the output
\* ends with the shorter of the two streams
CombineAudioVideo ==
    /\ stock.op = "stock" /\ stock.pc = "prepared"
    /\ \/ StockFail("composition")
       \/ stock' = [stock EXCEPT !.pc = "muxed",
                                 !.final = Shorter(stock.video, stock.target)]
    /\ StockFrame

StockStep ==
    \/ SearchAndDownload
    \/ loopVideoToDuration
    \/ TotalDuration
    \/ ExtendStep
    \/ AssembleAndTrim
    \/ CombineAudioVideo

StockNext == StockStep

SpecStock == StockInit /\ [][StockNext]_vars

\* the goroutine of the job keeps running and ffmpeg returns
FairSpecStock == StockInit /\ [][StockNext]_vars /\ WF_vars(StockStep)

(***************************************************************************)
(* The stock search: StockVideoService.searchMultipleVideos on the answer  *)
(* of the provider.  A link is a number, 0 standing for the empty string.  *)
(***************************************************************************)
\* the answer lists at most MaxRuns runs of like candidates
MaxRuns == 2
\* a video has at most MaxFiles files
MaxFiles == 2

\* if video.Duration >= 5 && video.Duration <= 35
minClipSeconds == 5
maxClipSeconds == 35
\* if len(selectedURLs) >= 100 { break }
maxSelected == 100
\* the bonus of each category of file
score1080p == 10000
score16x9Wide == 5000
score16x9 == 1000
scoreHD == 500
scoreFallback == 1
\* is16_9 && file.Width >= 1280
wideWidth == 1280

\* aspectRatio > 1.77 && aspectRatio < 1.78, with 0 for a height of 0
is16_9(file) ==
    /\ file.Height > 0
    /\ 100 * file.Width > 177 * file.Height
    /\ 100 * file.Width < 178 * file.Height

\* the category of a file, 5 the best
category(file) ==
    IF file.Width = 1920 /\ file.Height = 1080 THEN 5
    ELSE IF is16_9(file) /\ file.Width >= wideWidth THEN 4
    ELSE IF is16_9(file) THEN 3
    ELSE IF file.Quality = "hd" THEN 2
    ELSE 1

categoryScore(c) ==
    IF c = 5 THEN score1080p
    ELSE IF c = 4 THEN score16x9Wide
    ELSE IF c = 3 THEN score16x9
    ELSE IF c = 2 THEN scoreHD
    ELSE scoreFallback

\* currentScore, with currentScore += file.Width
currentScore(file) == categoryScore(category(file)) + file.Width

\* the loop over video.VideoFiles: a file replaces the best one when its
\* score is greater
RECURSIVE bestFileFrom(_, _, _, _)
bestFileFrom(files, i, bestLink, bestScore) ==
    IF i > Len(files) THEN [Link |-> bestLink, Score |-> bestScore]
    ELSE IF currentScore(files[i]) > bestScore
         THEN bestFileFrom(files, i + 1, files[i].Link, currentScore(files[i]))
         ELSE bestFileFrom(files, i + 1, bestLink, bestScore)

bestLinkOf(files) == bestFileFrom(files, 1, 0, 0).Link

\* video.Duration >= 5 && video.Duration <= 35
inBand(video) ==
    video.Duration >= minClipSeconds /\ video.Duration <= maxClipSeconds

\* if video.Duration >= 5 && video.Duration <= 35 { ... if bestLink != "" {
keeps(video) == inBand(video) /\ bestLinkOf(video.files) # 0

\* the loop over result.Videos that builds shortVideos: the videos kept, in
\* the order of the answer, each with its duration and its best link
shortVideosOf(videos) ==
    LET kept == SelectSeq(videos, keeps)
    IN [i \in 1..Len(kept) |->
           [Duration |-> kept[i].Duration,
            Link |-> bestLinkOf(kept[i].files)]]

\* a selection that goes on until the total exceeds the target
reachedStrictly(total, target) == total > target

\* if totalDuration >= targetDuration { break }
reached(total, target) == total >= target

\* one pass of the loop over shortVideos: the link is appended and the
\* duration added, the total being kept in milliseconds as the target is;
\* the loop breaks when the total reaches the target or 100 are selected
selectPass(acc, video, target) ==
    LET urls == Append(acc.urls, video.Link)
        total == acc.total + video.Duration * 1000
    IN [urls |-> urls, total |-> total,
        done |-> reached(total, target) \/ Len(urls) >= maxSelected]

\* the passes lo..hi of that loop in order, none after a break
RECURSIVE selectedFrom(_, _, _, _, _)
selectedFrom(shortVideos, lo, hi, acc, target) ==
    IF acc.done \/ lo > hi THEN acc
    ELSE IF lo = hi THEN selectPass(acc, shortVideos[lo], target)
    ELSE LET mid == (lo + hi) \div 2
         IN selectedFrom(shortVideos, mid + 1, hi,
                selectedFrom(shortVideos, lo, mid, acc, target), target)

selectedURLsOf(shortVideos, target) ==
    selectedFrom(shortVideos, 1, Len(shortVideos),
                 [urls |-> <<>>, total |-> 0, done |-> FALSE], target).urls

\* the durations the provider reports, in seconds: the ends of the band and
\* their neighbours outside it
ReportedDurations == {4, 5, 35, 36}
\* a candidate has no file, a file without a link, or a file with one
FileKinds == {"none", "nolink", "one"}
RunLengths == {1, 100}

\* runs of candidates alike; those without any file are in the band
Runs ==
    {r \in [Duration : ReportedDurations, kind : FileKinds, n : RunLengths] :
        r.kind = "none" => r.Duration = minClipSeconds}

\* the length of the narration: two clips of 5 s to the millisecond, and
\* ten minutes
SearchTargets == {10000, 600000}

FilesOfKind(kind, id) ==
    IF kind = "none" THEN <<>>
    ELSE <<[Width |-> 1920, Height |-> 1080, Quality |-> "hd",
            Link |-> IF kind = "nolink" THEN 0 ELSE id]>>

\* the videos of a list of runs, the link of a video being its place
RECURSIVE VideosOf(_, _)
VideosOf(runs, videos) ==
    IF runs = <<>> THEN videos
    ELSE LET r == Head(runs)
             more == [k \in 1..r.n |->
                         [Duration |-> r.Duration,
                          files |-> FilesOfKind(r.kind, Len(videos) + k)]]
         IN VideosOf(Tail(runs), videos \o more)

SearchInit ==
    /\ PoolStateInit
    /\ JobInit
    /\ cfg.MaxConcurrentTTSRequests = 1
    /\ cfg.MaxConcurrentVideoRequests = 1
    /\ cfg.videoAPI = "placeholder"
    /\ worker = NoWorker
    /\ tp = NoText
    /\ client = NoClient
    /\ \E audio \in SearchTargets : \E n \in 0..MaxRuns :
       \E runs \in [1..n -> Runs] :
          stock = [op |-> "search", pc |-> "search", target |-> audio,
                   Videos |-> VideosOf(runs, <<>>), shortVideos |-> <<>>,
                   selectedURLs |-> <<>>, err |-> NoError]

\* searchMultipleVideos: the request fails, or the answer is filtered and
\* the selection made
searchMultipleVideos ==
    /\ stock.op = "search" /\ stock.pc = "search"
    /\ \/ stock' = [stock EXCEPT !.pc = "failed", !.err = "request"]
       \/ /\ stock.Videos = <<>>
          /\ stock' = [stock EXCEPT !.pc = "failed", !.err = "no videos"]
       \/ /\ stock.Videos # <<>>
          /\ LET short == shortVideosOf(stock.Videos)
                 urls == selectedURLsOf(short, stock.target)
             IN stock' = IF short = <<>>
                         THEN [stock EXCEPT !.pc = "failed",
                                            !.err = "no short videos"]
                         ELSE [stock EXCEPT !.pc = "selected",
                                            !.shortVideos = short,
                                            !.selectedURLs = urls]
    /\ StockFrame

SearchNext == searchMultipleVideos

SpecSearch == SearchInit /\ [][SearchNext]_vars

(***************************************************************************)
(* The choice of a file among those of one video.                          *)
(***************************************************************************)
\* files as the provider lists them: width, height, quality and link
VideoFiles ==
    {[Width |-> 1920, Height |-> 1080, Quality |-> "hd", Link |-> 1],
     [Width |-> 1280, Height |-> 720, Quality |-> "hd", Link |-> 2],
     [Width |-> 7680, Height |-> 4320, Quality |-> "uhd", Link |-> 3],
     [Width |-> 960, Height |-> 540, Quality |-> "sd", Link |-> 4],
     [Width |-> 2048, Height |-> 1080, Quality |-> "hd", Link |-> 5],
     [Width |-> 640, Height |-> 480, Quality |-> "sd", Link |-> 6],
     [Width |-> 4096, Height |-> 2160, Quality |-> "uhd", Link |-> 7]}

ScoreInit ==
    /\ PoolStateInit
    /\ JobInit
    /\ cfg.MaxConcurrentTTSRequests = 1
    /\ cfg.MaxConcurrentVideoRequests = 1
    /\ cfg.videoAPI = "placeholder"
    /\ worker = NoWorker
    /\ tp = NoText
    /\ client = NoClient
    /\ \E n \in 1..MaxFiles : \E files \in [1..n -> VideoFiles] :
          stock = [op |-> "score", pc |-> "files", files |-> files,
                   scores |-> <<>>, bestLink |-> 0, bestScore |-> 0]

\* the loop over video.VideoFiles of one video
ScoreFiles ==
    /\ stock.op = "score" /\ stock.pc = "files"
    /\ LET best == bestFileFrom(stock.files, 1, 0, 0)
       IN stock' = [stock EXCEPT
              !.pc = "scored",
              !.scores = [i \in 1..Len(stock.files) |->
                             currentScore(stock.files[i])],
              !.bestLink = best.Link, !.bestScore = best.Score]
    /\ StockFrame

ScoreNext == ScoreFiles

SpecScore == ScoreInit /\ [][ScoreNext]_vars

(***************************************************************************)
(* utils.MergeVideosWithTransition: the chain of xfade filters.  A label   *)
(* is a pair, <<"norm", i>> for [v<i>norm], <<"v", i>> for [v<i>] and      *)
(* <<"vout", 0>> for [vout].                                               *)
(***************************************************************************)
\* the most files merged at once
MaxInputs == 3

\* what ffprobe says of the files merged, in milliseconds
MergedDurations == {500, 1002, 1004, 5000}

\* an offset that forgets the overlap of the join
nextOffsetNoOverlap(offset, duration, transition) == offset + duration

\* offset += durations[i-1] - transitionDuration
nextOffset(offset, duration, transition) == offset + duration - transition

\* the loop for i := 1; i < len(inputFiles); i++ from pass i on; n is
\* len(inputFiles), the inputs being numbered from 0 as in the code
RECURSIVE xfadeFrom(_, _, _, _, _, _)
xfadeFrom(durations, transition, i, offset, lastLabel, filters) ==
    LET n == Len(durations)
    IN IF ~(i < n) THEN filters
       ELSE LET off == nextOffset(offset, durations[i], transition)
                outputLabel == IF i = n - 1 THEN <<"vout", 0>> ELSE <<"v", i>>
            IN UNION {xfadeFrom(durations, transition, i + 1, off, outputLabel,
                         {Append(f, [first |-> lastLabel,
                                     second |-> <<"norm", i>>,
                                     duration |-> dur, raw |-> off,
                                     offset |-> text, out |-> outputLabel]) :
                             f \in filters})
                         : text \in Hundredths(off),
                           dur \in Hundredths(transition)}

\* the filters MergeVideosWithTransition can write for these durations
xfadeFilters(durations, transition) ==
    xfadeFrom(durations, transition, 1, 0, <<"norm", 0>>, {<<>>})

MergeInit ==
    /\ PoolStateInit
    /\ JobInit
    /\ cfg.MaxConcurrentTTSRequests = 1
    /\ cfg.MaxConcurrentVideoRequests = 1
    /\ cfg.videoAPI = "placeholder"
    /\ worker = NoWorker
    /\ tp = NoText
    /\ client = NoClient
    /\ \E n \in 1..MaxInputs : \E durations \in [1..n -> MergedDurations] :
          stock = [op |-> "merge", pc |-> "inputs", durations |-> durations,
                   transition |-> transitionDuration, filters |-> <<>>,
                   err |-> NoError]

\* MergeVideosWithTransition: a probe fails, or one file is re-encoded, or the
\* chain of transitions is written
MergeVideosWithTransition ==
    /\ stock.op = "merge" /\ stock.pc = "inputs"
    /\ \/ /\ Len(stock.durations) > 1
          /\ stock' = [stock EXCEPT !.pc = "failed", !.err = "probe"]
       \/ \E filters \in xfadeFilters(stock.durations, stock.transition) :
             stock' = [stock EXCEPT !.pc = "merged", !.filters = filters]
    /\ StockFrame

MergeNext == MergeVideosWithTransition

SpecMerge == MergeInit /\ [][MergeNext]_vars

(***************************************************************************)
(* The subtitle file and the merged narration.  Times are in tenths of a   *)
(* millisecond, ffprobe reporting six decimals of a second.                *)
(***************************************************************************)
\* the most chunks of one narration
MaxCues == 2

\* tenths of a millisecond in a second
perSecond == 10000

\* x rounded to a multiple of q, a half falling either way with the binary
\* value of the number rounded
Nearest(x, q) ==
    LET down == x - (x % q)
    IN IF 2 * (x % q) < q THEN {down}
       ELSE IF 2 * (x % q) > q THEN {down + q}
       ELSE {down, down + q}

\* int(x) and Go's / and %: towards zero
Quot(a, b) == IF a >= 0 THEN a \div b ELSE -((-a) \div b)
Rem(a, b) == a - b * Quot(a, b)

\* FormatSRTTimestamp: d := int(seconds), ms := int(math.Round((seconds -
\* float64(d)) * 1000)), then h, m, s of d; the four numbers printed
FormatSRTTimestamp(seconds) ==
    LET d == Quot(seconds, perSecond)
        frac == seconds - d * perSecond
    IN {[h |-> Quot(d, 3600), m |-> Quot(Rem(d, 3600), 60), s |-> Rem(d, 60),
         ms |-> Quot(r, 10)] : r \in Nearest(frac, 10)}

\* what ffprobe says of the chunks: shorter than the crossfade, and two
\* lengths of speech
CueDurations == {1000, 20000, 34482}
\* AUDIO_CROSSFADE_DURATION: the default 0.3 s, and an eighth of a second
Crossfades == {3000, 1250}
\* the length of static/intro_video.mp4, 0 without one
IntroOffsets == {0, 50000}

\* the loop of GenerateSRT from chunk i on: the crossfade is taken off the
\* offset for every chunk but the first, the cue runs from the offset for
\* the chunk's duration, and both ends are formatted
RECURSIVE cuesFrom(_, _, _, _, _)
cuesFrom(durations, crossfade, i, currentOffset, cues) ==
    IF i > Len(durations) THEN cues
    ELSE LET start == IF i > 1 THEN currentOffset - crossfade
                      ELSE currentOffset
             end == start + durations[i]
         IN UNION {cuesFrom(durations, crossfade, i + 1, end,
                      {Append(c, [start |-> start, end |-> end,
                                  startStr |-> s, endStr |-> e]) :
                          c \in cues})
                      : s \in FormatSRTTimestamp(start),
                        e \in FormatSRTTimestamp(end)}

SRTInit ==
    /\ PoolStateInit
    /\ JobInit
    /\ cfg.MaxConcurrentTTSRequests = 1
    /\ cfg.MaxConcurrentVideoRequests = 1
    /\ cfg.videoAPI = "placeholder"
    /\ worker = NoWorker
    /\ tp = NoText
    /\ client = NoClient
    /\ \E n \in 1..MaxCues : \E durations \in [1..n -> CueDurations] :
       \E c \in Crossfades : \E o \in IntroOffsets :
          stock = [op |-> "srt", pc |-> "chunks", durations |-> durations,
                   crossfade |-> c, intro |-> o, cues |-> <<>>,
                   written |-> 0, merged |-> 0, err |-> NoError]

\* GenerateSRT: the file cannot be written or a probe fails, which the job
\* only logs, or one cue per chunk is written
GenerateSRTFile ==
    /\ stock.op = "srt" /\ stock.pc = "chunks"
    /\ \/ stock' = [stock EXCEPT !.pc = "subtitled", !.err = "srt"]
       \/ \E cues \in cuesFrom(stock.durations, stock.crossfade, 1,
                               stock.intro, {<<>>}) :
             stock' = [stock EXCEPT !.pc = "subtitled", !.cues = cues]
    /\ StockFrame

\* MergeAudioWithCrossfade: one file is normalised as it is; several are
\* chained by acrossfade with d written with two decimals, each join taking
\* that much off the sum
MergeAudioWithCrossfade ==
    /\ stock.op = "srt" /\ stock.pc = "subtitled"
    /\ \/ stock' = [stock EXCEPT !.pc = "failed", !.err = "merge"]
       \/ \E d \in Nearest(stock.crossfade, 100) :
             stock' = [stock EXCEPT
                 !.pc = "merged", !.written = d,
                 !.merged = SumDurations(stock.durations)
                               - (Len(stock.durations) - 1) * d]
    /\ StockFrame

SRTNext == GenerateSRTFile \/ MergeAudioWithCrossfade

SpecSRT == SRTInit /\ [][SRTNext]_vars

(***************************************************************************)
(* SpecStamp: FormatSRTTimestamp on a time of zero or more, in tenths of a *)
(* millisecond.                                                            *)
(***************************************************************************)
\* the most whole hours of a time
MaxHours == 1

\* the part of a time below the second: none, below, at and above half a
\* millisecond, and the same below the next second
StampFractions == {0, 4, 5, 6, 9994, 9995, 9996}

StampTimes ==
    {((h * 3600 + m * 60 + s) * perSecond) + f :
        h \in 0..MaxHours, m \in {0, 59}, s \in {0, 59}, f \in StampFractions}

StampInit ==
    /\ PoolStateInit
    /\ JobInit
    /\ cfg.MaxConcurrentTTSRequests = 1
    /\ cfg.MaxConcurrentVideoRequests = 1
    /\ cfg.videoAPI = "placeholder"
    /\ worker = NoWorker
    /\ tp = NoText
    /\ client = NoClient
    /\ \E seconds \in StampTimes :
          stock = [op |-> "stamp", pc |-> "time", seconds |-> seconds,
                   stamp |-> [h |-> 0, m |-> 0, s |-> 0, ms |-> 0]]

\* utils.FormatSRTTimestamp(seconds)
CallFormatSRTTimestamp ==
    /\ stock.op = "stamp" /\ stock.pc = "time"
    /\ \E stamp \in FormatSRTTimestamp(stock.seconds) :
          stock' = [stock EXCEPT !.pc = "formatted", !.stamp = stamp]
    /\ StockFrame

StampNext == CallFormatSRTTimestamp

SpecStamp == StampInit /\ [][StampNext]_vars

(***************************************************************************)
(* Properties of the key pool, stated over SpecPool.                       *)
(***************************************************************************)
P == PoolUnderTest

Acquired == ret.op = "GetRandomKey" /\ ret.key # NoKey

BlacklistedAt(bl, k, now) == bl[k] # NoTime /\ now < bl[k]

\* C1: GetRandomKey never returns a key k at a time now with
\* now < blacklist-until(k): when a call has just returned k, the pool holds
\* no entry for k that lies after the time the call read to judge it (nor,
\* the clock being monotonic, after the time it returned).
C1_NeverReturnsBlacklisted ==
    Acquired =>
        /\ ~BlacklistedAt(blacklist[P], ret.key, ret.checked)
        /\ ~BlacklistedAt(blacklist[P], ret.key, clock)

\* C1 witness: a key that was blacklisted is returned once its entry has run
\* out (the entry is still in the map), while another key is still withheld.
C1_Witness ==
    /\ Acquired
    /\ blacklist[P][ret.key] # NoTime
    /\ \E k \in Keys \ {ret.key} : BlacklistedAt(blacklist[P], k, clock)

\* C2 as stated: after MarkFailed(k, d) at time t no GetRandomKey returns k
\* before t+d, whatever calls lie in between (promisedUntil[k] is the
\* largest t+d any MarkFailed call on k has announced).
C2_Original ==
    Acquired => clock >= promisedUntil[P][ret.key]

\* C2 amended: after MarkFailed(k, d) at time t no GetRandomKey returns k
\* before t+d unless a later MarkFailed(k, d') at t' has overwritten the
\* entry; k is then withheld until t'+d' of the most recent call.
C2_MostRecentMarkHolds ==
    Acquired => ret.checked >= lastMarkUntil[P][ret.key]

\* C2 witness: k is returned after two MarkFailed calls on it of which the
\* later announced the earlier expiry.
C2_Witness ==
    /\ Acquired
    /\ lastMarkUntil[P][ret.key] > 0
    /\ promisedUntil[P][ret.key] > lastMarkUntil[P][ret.key]

\* C3: when every key has a blacklist entry that lies in the future at the
\* moment GetRandomKey examines the blacklist, the call returns the
\* exhaustion error and leaves every usage counter and last-used time as it
\* was.
C3_ExhaustionMutatesNothing ==
    [][ ( /\ ret'.op = "GetRandomKey"
          /\ \A k \in Keys : BlacklistedAt(blacklist[P], k, ret'.checked) )
        => ( /\ ret'.key = NoKey
             /\ usageCounts' = usageCounts
             /\ lastUsedTime' = lastUsedTime ) ]_vars

\* C3 witness: GetRandomKey has just failed with every key blacklisted and a
\* usage counter that is not zero.
C3_Witness ==
    /\ ret.op = "GetRandomKey" /\ ret.key = NoKey
    /\ \A k \in Keys : BlacklistedAt(blacklist[P], k, clock)
    /\ \E k \in Keys : usageCounts[P][k] > 0 /\ lastUsedTime[P][k] # NoTime

(***************************************************************************)
(* Properties of the job record and of the two batch generators.           *)
(***************************************************************************)
Terminal(j) == jobs[j].Status \in {"completed", "failed"}

\* C4: a job's status only moves processing -> completed or processing ->
\* failed; completed and failed are absorbing, and once the job is terminal
\* no step writes its status, progress, output path or error again.
C4_TerminalAbsorbing ==
    [][\A j \in JobIds :
          /\ Terminal(j) => jobs'[j] = jobs[j]
          /\ (jobs[j] # NoJob /\ jobs'[j].Status # jobs[j].Status) =>
                /\ jobs[j].Status = "processing"
                /\ jobs'[j].Status \in {"completed", "failed"}]_vars

\* the job has failed in clip synthesis while goroutines of that batch are
\* still taking steps
C4_Witness ==
    \E j \in JobIds :
        /\ jobs[j].Status = "failed"
        /\ pc[j] = "end"
        /\ \E u \in Units : batch[j].unit[u] = "running"

\* C5: in every reachable state the progress of every job is an integer in
\* 0..100, and no step of any execution (either branch, success or failure at
\* any stage) lowers it.
C5_ProgressMonotone ==
    /\ [](\A j \in JobIds : jobs[j].Progress \in 0..100)
    /\ [][\A j \in JobIds : jobs'[j].Progress >= jobs[j].Progress]_vars

\* a job of the generated branch that has passed the 45 and 50 checkpoints
\* and then failed
C5_Witness ==
    \E j \in JobIds :
        /\ req[j].VideoSource = "ai"
        /\ jobs[j].Status = "failed"
        /\ jobs[j].Progress = Checkpoint("clips")

\* C6: a job has an output path only if it is completed and an error only if
\* it is failed; a completed job has progress 100 and no error; a failed job
\* has no output path.
C6_RecordConsistent ==
    \A j \in JobIds :
        /\ jobs[j].VideoPath # "" => jobs[j].Status = "completed"
        /\ jobs[j].Error # NoError => jobs[j].Status = "failed"
        /\ jobs[j].Status = "completed" =>
              jobs[j].Progress = 100 /\ jobs[j].Error = NoError
        /\ jobs[j].Status = "failed" => jobs[j].VideoPath = ""

\* a completed job whose output is the file with intro and outro
C6_Witness ==
    \E j \in JobIds :
        /\ jobs[j].Status = "completed"
        /\ jobs[j].VideoPath = "final_complete.mp4"

\* C7: when a fatal stage returns an error the job is failed with that error
\* recorded, the failing stage is the last one started, the task has ended,
\* and (this holding in every later state) the job never becomes completed.
C7_FatalStageFailsJob ==
    \A j \in JobIds :
        failedStage[j] # "none" =>
            /\ failedStage[j] \in FatalStages
            /\ jobs[j].Status = "failed"
            /\ jobs[j].Error = failedStage[j]
            /\ started[j][Len(started[j])] = failedStage[j]
            /\ pc[j] = "end"

\* the video merge failed after GenerateVideos had returned its paths
C7_Witness ==
    \E j \in JobIds :
        /\ failedStage[j] = "videoMerge"
        /\ batchRet[j].result = "ok"

\* C8: with every external call returning and a ceiling of at least 1, every
\* job in processing eventually has a terminal status.
C8_EveryJobTerminates ==
    \A j \in JobIds : (jobs[j].Status = "processing") ~> Terminal(j)

\* a job that went through both batches at full size is terminal
C8_Witness ==
    \E j \in JobIds :
        /\ Terminal(j)
        /\ batch[j].kind = "video"
        /\ batch[j].n = MaxUnits
        /\ req[j].nChunks = MaxUnits

C10_FanIn ==
    \A j \in JobIds :
        batchRet[j].result # "none" =>
            \A u \in Units : u < batch[j].n => batch[j].unit[u] = "done"

\* the units of the batch of job j inside generateSingleAudio /
\* generateSingleVideo
Running(j) == {u \in Units : batch[j].unit[u] = "running"}

\* C11: in every reachable state of a batch at most C units are between the
\* semaphore acquire and its release, C the ceiling the batch was called
\* with, although all N goroutines are started at once.
C11_AtMostCeilingRunning ==
    \A j \in JobIds :
        /\ batch[j].kind = "audio" =>
              Cardinality(Running(j)) <= cfg.MaxConcurrentTTSRequests
        /\ batch[j].kind = "video" =>
              Cardinality(Running(j)) <= cfg.MaxConcurrentVideoRequests

\* the ceiling is reached while another launched unit waits for a slot
C11_Witness ==
    \E j \in JobIds :
        /\ batch[j].kind # "none"
        /\ Cardinality(Running(j)) = Ceiling(batch[j].kind)
        /\ \E u \in Units : batch[j].unit[u] = "waiting"

SeveralFailed(j) ==
    /\ batchRet[j].result = "err"
    /\ Cardinality({u \in Units : batch[j].errors[u] # NoError}) > 1

\* C13 as stated: when more than one unit fails, the error returned is that
\* of the unit which failed first in time.
C13_Original ==
    \A j \in JobIds :
        SeveralFailed(j) => batchRet[j].cited = batch[j].firstFailed

\* C13: the error a batch call returns cites the lowest index among the
\* units that have failed when the scan runs, whichever of them failed first
\* in time; GenerateAudioChunks runs the scan only when every unit has
\* finished, GenerateVideos when the unit of the last index has.
C13_LowestIndexAfterWait ==
    [][\A j \in JobIds :
          (batchRet'[j] # batchRet[j] /\ batchRet'[j].result = "err") =>
              /\ batch[j].errors[batchRet'[j].cited] # NoError
              /\ \A u \in Units :
                    (u < batch[j].n /\ batch[j].errors[u] # NoError) =>
                        batchRet'[j].cited <= u
              /\ batch[j].kind = "audio" =>
                    \A u \in Units : u < batch[j].n => batch[j].unit[u] = "done"
              /\ batch[j].kind = "video" =>
                    batch[j].unit[batch[j].n - 1] = "done"]_vars

\* GenerateAudioChunks returned the error of a unit that was not the first
\* to fail
C13_Witness ==
    \E j \in JobIds :
        /\ batch[j].kind = "audio"
        /\ SeveralFailed(j)
        /\ batchRet[j].cited # batch[j].firstFailed

(***************************************************************************)
(* Properties of one unit's retry loop, stated over SpecUnit.              *)
(***************************************************************************)
UnitDone == worker.pc = "done"

\* every provider call the unit made returned an error
EveryCallFailed == worker.okCalls = 0

\* C14 as stated: a unit whose provider call fails on every attempt makes
\* exactly 3 calls and fails with the last call's error, whatever the pool
\* size and whatever the other units do.
C14_Original ==
    (UnitDone /\ EveryCallFailed) =>
        /\ worker.calls = maxRetries
        /\ worker.err = "retries"
        /\ worker.lastErr = "api"

\* C14: a unit whose provider call fails on every attempt makes at most 3
\* calls, each with a key acquired for it; it blacklists the key of each
\* failed call for 60 s (speech) or 120 s (clips) before it acquires again;
\* it ends either after exactly 3 calls with the last call's error or, at
\* the first acquisition that finds no key, with the exhaustion error after
\* fewer than 3 calls.
C14_ThreeCallsOrExhaustion ==
    /\ [](/\ worker.calls <= maxRetries
          /\ worker.calls <= worker.acquires
          /\ worker.acquires <= worker.calls + 1
          /\ (UnitDone /\ EveryCallFailed) =>
                \/ /\ worker.err = "retries"
                   /\ worker.calls = maxRetries
                   /\ worker.lastErr = "api"
                \/ /\ worker.err = "nokey"
                   /\ worker.calls < maxRetries
                   /\ worker.acquires = worker.calls + 1)
    /\ [][(worker'.calls = worker.calls + 1
              /\ worker'.okCalls = worker.okCalls) =>
             blacklist'[PoolOf(worker.kind)][worker.key] =
                worker'.markedAt
                   + (IF worker.kind = "audio" THEN ttsCooldown
                      ELSE videoCooldown)]_vars

\* with no other unit touching the pool, the unit's own blacklisting leaves
\* it without a key before its third call
C14_Witness ==
    /\ UnitDone /\ EveryCallFailed
    /\ worker.others = 0
    /\ worker.err = "nokey"
    /\ worker.calls >= 1

IsTrimOf(t, s) ==
    \E i \in 1..(Len(s) + 1), k \in 0..Len(s) :
        /\ t = SubSeq(s, i, k)
        /\ \A x \in 1..Len(s) : (x < i \/ x > k) => s[x] = " "
        /\ t # <<>> => (t[1] # " " /\ t[Len(t)] # " ")

\* s without its spaces
RECURSIVE Squeeze(_)
Squeeze(s) ==
    IF s = <<>> THEN <<>>
    ELSE IF Head(s) = " " THEN Squeeze(Tail(s))
    ELSE <<Head(s)>> \o Squeeze(Tail(s))

\* the strings of a sequence one after the other
RECURSIVE Concat(_)
Concat(ss) == IF ss = <<>> THEN <<>> ELSE Head(ss) \o Concat(Tail(ss))

\* s has a run of more than limit characters free of spaces
HasLongToken(s, limit) ==
    \E i \in 1..Len(s) :
        /\ i + limit <= Len(s)
        /\ \A x \in i..(i + limit) : s[x] # " "

AudioCalled == tp.op = "SplitForAudio"
VideoCalled == tp.op = "SplitForVideo"

\* C16: for a script whose trimmed length is at most the chunk limit,
\* SplitForAudio returns exactly one chunk, the trimmed script; for an empty
\* or all-space script it returns no chunk.
C16_ShortScriptOneChunk ==
    AudioCalled =>
        \A t \in {SubSeq(tp.text, i, k) :
                     i \in 1..(Len(tp.text) + 1), k \in 0..Len(tp.text)} :
            IsTrimOf(t, tp.text) =>
                /\ t = <<>> => tp.chunks = <<>>
                /\ (t # <<>> /\ Len(t) <= tp.AudioChunkSize) =>
                       tp.chunks = <<t>>

\* a script with spaces around it and spaces inside, returned as one chunk
C16_Witness ==
    /\ AudioCalled
    /\ Len(tp.chunks) = 1
    /\ tp.chunks[1] # tp.text
    /\ Len(tp.chunks[1]) = tp.AudioChunkSize
    /\ \E x \in 1..Len(tp.chunks[1]) : tp.chunks[1][x] = " "

\* C17: no chunk SplitForAudio returns is longer than the limit, unless the
\* script has a token, free of spaces, that is itself longer than the limit.
C17_ChunksWithinLimit ==
    AudioCalled =>
        \/ HasLongToken(tp.text, tp.AudioChunkSize)
        \/ \A c \in 1..Len(tp.chunks) :
              Len(tp.chunks[c]) <= tp.AudioChunkSize

\* a sentence longer than the limit, made of short tokens, was split
C17_Witness ==
    /\ AudioCalled
    /\ ~HasLongToken(tp.text, tp.AudioChunkSize)
    /\ Len(tp.chunks) >= 2
    /\ Len(splitIntoSentences(tp.text)) = 1

C19_SegmentsWithinTarget ==
    VideoCalled =>
        /\ \A g \in 1..Len(tp.segments) :
              /\ tp.segments[g].sentences > 1 =>
                    tp.segments[g].EstimatedDuration <= tp.VideoSegmentDuration
              /\ tp.segments[g].EstimatedDuration > tp.VideoSegmentDuration =>
                    /\ tp.segments[g].sentences = 1
                    /\ estimateDuration(tp.segments[g].Text)
                          > tp.VideoSegmentDuration
              /\ tp.segments[g].Text # <<>>
              /\ tp.segments[g].EstimatedDuration >= 0
        /\ Squeeze(tp.text) = <<>> => tp.segments = <<>>

\* two sentences were joined and the third started a new segment
C19_Witness ==
    /\ VideoCalled
    /\ Len(tp.segments) >= 2
    /\ \E g \in 1..Len(tp.segments) : tp.segments[g].sentences > 1

(***************************************************************************)
(* The end-to-end scenario.                                                *)
(***************************************************************************)
\* the stages a job of the generated branch passes before it completes
GeneratedStages ==
    {"tempdir", "chunking", "speech", "subtitles", "audioMerge", "segment",
     "prompts", "clips", "videoMerge", "mux"}

Entered(j) == {started[j][i] : i \in 1..Len(started[j])}

\* the segments of the submitted script
ScriptSegments == SplitForVideo(tp.text, tp.VideoSegmentDuration)

SegmentsWithinTarget ==
    \A g \in 1..Len(ScriptSegments) :
        ScriptSegments[g].EstimatedDuration <= tp.VideoSegmentDuration

Answered == client.op = "serve" /\ client.rd = "done" /\ client.resp.code = 200

\* C21: a status response that says completed carries the download
\* reference, and the fields of a response are a combination the record held
\* at one moment: a reference only with completed, an error only with
\* failed, completed only with progress 100 and no error.
C21_ResponseNeverTorn ==
    Answered =>
        /\ client.resp.Status = "completed" =>
              /\ client.resp.VideoURL
              /\ client.resp.Progress = 100
              /\ client.resp.Error = NoError
        /\ client.resp.VideoURL => client.resp.Status = "completed"
        /\ client.resp.Error # NoError => client.resp.Status = "failed"

\* C22: once the cleanup scheduled by a download has run, the job's record
\* is gone from the registry with its directory, and a status query that
\* starts afterwards does not answer completed with a download reference.
C22_RecordRemovedAfterRetention ==
    /\ (client.op = "serve" /\ client.cleaned) =>
          \A j \in JobIds : jobs[j] = NoJob
    /\ (Answered /\ client.resp.cleaned) =>
          ~(client.resp.Status = "completed" /\ client.resp.VideoURL)

\* the submission under way fails a check of the validation as C23 lists
\* them
OutOfRange(s) ==
    \/ s.scriptLen = 0
    \/ s.scriptLen > MaxTextLength
    \/ s.speed < 5
    \/ s.speed > 20

NoTask == \A j \in JobIds : jobs[j] = NoJob /\ pc[j] = "none"

\* C23 as stated: a submission with an empty script, a script longer than
\* the maximum or a speaking speed outside [0.5, 2.0] creates no job.
C23_Original ==
    (client.op = "serve" /\ client.verdict # "none"
       /\ OutOfRange(client.sub)) =>
        client.verdict # "accepted" /\ NoTask

\* C23, amended: a submission is rejected exactly when it does not bind, its
\* script is empty or longer than the maximum, or its speaking speed is not
\* zero and outside [0.5, 2.0]; a speed of zero (as of a request that names
\* none) is replaced by 1.0 and accepted.  While no submission has been
\* accepted the registry is empty and no task runs; the record appears with
\* status processing and progress 0 in the step that spawns the task, a task
\* always has its record, and a status query answers not-found only if its
\* lookup came before that step.
C23_RejectedOrInserted ==
    /\ [](client.op = "serve" /\ client.verdict # "none" =>
            /\ client.verdict # "accepted" <=>
                  \/ ~client.sub.bound
                  \/ client.sub.scriptLen = 0
                  \/ client.sub.scriptLen > MaxTextLength
                  \/ /\ client.sub.speed # 0
                     /\ client.sub.speed < 5 \/ client.sub.speed > 20
            /\ client.verdict # "accepted" => NoTask)
    /\ [](\A j \in JobIds : pc[j] # "none" => jobs[j] # NoJob)
    /\ [][\A j \in JobIds :
            /\ (jobs[j] = NoJob /\ jobs'[j] # NoJob) =>
                  /\ client.verdict = "accepted"
                  /\ jobs'[j].Status = "processing"
                  /\ jobs'[j].Progress = 0
                  /\ pc[j] = "none" /\ pc'[j] = "spawned"
            /\ jobs[j] # NoJob => jobs'[j] # NoJob
            /\ (client.op = "serve" /\ client.rd = "idle"
                  /\ client'.resp.code = 404) =>
                  jobs[j] = NoJob /\ pc[j] = "none"]_vars

\* a submission with speed zero was accepted and a status query for its job
\* has been answered with the record
C23_Witness ==
    /\ Answered
    /\ client.verdict = "accepted"
    /\ client.sub.speed = 0
    /\ client.sub.scriptLen = MaxTextLength
    /\ client.resp.Status = "processing"

(***************************************************************************)
(* The subtitle step and the order of the stages.                          *)
(***************************************************************************)
\* C24: the return of GenerateSRT, error or not, leaves the job's status and
\* error as they were and takes the task to the audio merge; no job fails in
\* the subtitle step.
C24_SubtitleFailureNotFatal ==
    /\ [][\A j \in JobIds :
            (pc[j] = "subtitles" /\ pc'[j] # pc[j]) =>
                /\ pc'[j] = "audioMerge"
                /\ jobs'[j].Status = jobs[j].Status
                /\ jobs'[j].Error = jobs[j].Error]_vars
    /\ [](\A j \in JobIds :
            /\ failedStage[j] # "subtitles"
            /\ srtRet[j] # "none" => "audioMerge" \in Entered(j))

\* GenerateSRT returned an error and the job is completed
C24_Witness ==
    \E j \in JobIds : srtRet[j] = "err" /\ jobs[j].Status = "completed"

\* the stages of processVideoGeneration in the order of its statements, for
\* either value of req.VideoSource
StageOrder(source) ==
    IF source = "stock"
    THEN <<"tempdir", "chunking", "speech", "subtitles", "audioMerge",
           "probe", "stock", "mux", "concat", "complete">>
    ELSE <<"tempdir", "chunking", "speech", "subtitles", "audioMerge",
           "segment", "prompts", "clips", "videoMerge", "mux", "concat",
           "complete">>

\* C25: the stages a task has started are, in order, the first stages of the
\* fixed order of its video source, so only one video branch runs and the
\* mux starts after the audio merge and the video track of that branch; a
\* stage starts in the step in which the call of the stage before it returns,
\* which for the two batches is after wg.Wait() or <-done has returned.
C25_StagesInFixedOrder ==
    /\ [](\A j \in JobIds :
            req[j] # NoRequest =>
                /\ Len(started[j]) <= Len(StageOrder(req[j].VideoSource))
                /\ started[j] = SubSeq(StageOrder(req[j].VideoSource), 1,
                                       Len(started[j]))
                /\ ~({"probe", "segment"} \subseteq Entered(j))
                /\ "mux" \in Entered(j) =>
                      /\ "audioMerge" \in Entered(j)
                      /\ "stock" \in Entered(j) \/ "videoMerge" \in Entered(j))
    /\ [][\A j \in JobIds :
            started'[j] # started[j] =>
                /\ started'[j] = Append(started[j], pc'[j])
                /\ pc[j] = IF started[j] = <<>> THEN "spawned"
                           ELSE started[j][Len(started[j])]
                /\ pc[j] = "speech" => batch[j].wg = 0
                /\ pc[j] = "clips" => batch[j].done]_vars

\* a job of the generated branch has run through every stage, with batches
\* of MaxUnits units
C25_Witness ==
    \E j \in JobIds :
        /\ jobs[j].Status = "completed"
        /\ req[j].VideoSource = "ai"
        /\ started[j] = StageOrder("ai")
        /\ batch[j].n = MaxUnits

(***************************************************************************)
(* The usage counters of the pool.                                         *)
(***************************************************************************)
\* the keys not blacklisted at the moment the last GetRandomKey looked
AvailableThen ==
    {k \in Keys :
        \/ blacklist'[PoolUnderTest][k] = NoTime
        \/ ~(ret'.checked < blacklist'[PoolUnderTest][k])}

\* C26: a GetRandomKey that returns a key returns one whose usage count was
\* at most the least count among the keys not blacklisted plus half their
\* number, rounded down; it adds one to that key's counter and leaves every
\* other counter alone, and no other call changes a counter, so the counters
\* sum to the number of calls that returned a key.
C26_LeastUsedWithinThreshold ==
    /\ [](client.op = "pool" =>
             SumUsage(usageCounts[PoolUnderTest]) = client.acquired)
    /\ [][IF ret'.op = "GetRandomKey" /\ ret'.key # NoKey
          THEN /\ ret'.key \in AvailableThen
               /\ \E m \in AvailableThen :
                     /\ \A k \in AvailableThen :
                           usageCounts[PoolUnderTest][m]
                              <= usageCounts[PoolUnderTest][k]
                     /\ usageCounts[PoolUnderTest][ret'.key]
                           <= usageCounts[PoolUnderTest][m]
                                 + (Cardinality(AvailableThen) \div 2)
               /\ usageCounts' =
                     [usageCounts EXCEPT ![PoolUnderTest][ret'.key] = @ + 1]
          ELSE usageCounts' = usageCounts]_vars

\* a key was returned while another key, free of the blacklist, had been
\* used too often to be a candidate
C26_Witness ==
    /\ client.op = "pool"
    /\ ret.op = "GetRandomKey"
    /\ ret.key # NoKey
    /\ \E k \in Keys :
          /\ k # ret.key
          /\ blacklist[PoolUnderTest][k] = NoTime
          /\ usageCounts[PoolUnderTest][k]
                > usageCounts[PoolUnderTest][ret.key] - 1
                     + (Cardinality({x \in Keys :
                                        blacklist[PoolUnderTest][x] = NoTime})
                           \div 2)

(***************************************************************************)
(* A unit that finds no key.                                               *)
(***************************************************************************)
\* every key of the unit's pool is blacklisted at the present time
Exhausted ==
    getAvailableKeys(blacklist[PoolOf(worker.kind)], clock) = {}

\* C27: when the unit's GetRandomKey finds every key of its pool blacklisted,
\* the unit ends in that very step with the error "no available API keys",
\* whatever attempts remain: it has made no provider call, no blacklist entry
\* was written, and no time has passed; and a unit that ended with that error
\* has made exactly one call for each attempt that went before.
C27_ExhaustionFailsUnitAtOnce ==
    /\ [](worker.kind # "none" /\ worker.err = "nokey" =>
             /\ worker.pc = "done"
             /\ worker.calls = worker.attempt
             /\ worker.lastErr # "nokey")
    /\ [][worker.kind # "none" /\ worker.pc = "acquire" /\ Exhausted
             /\ worker'.acquires # worker.acquires
          => /\ worker'.pc = "done"
             /\ worker'.err = "nokey"
             /\ worker'.attempt = worker.attempt
             /\ worker'.calls = worker.calls
             /\ blacklist' = blacklist
             /\ clock' = clock]_vars

\* a unit that failed for want of a key after one failed call of its own,
\* with two attempts left, the other blacklist entries being the work of
\* other goroutines
C27_Witness ==
    /\ worker.kind # "none"
    /\ worker.pc = "done" /\ worker.err = "nokey"
    /\ worker.attempt = 1 /\ worker.calls = 1
    /\ worker.others > 0
    /\ Exhausted

(***************************************************************************)
(* The stock track and the mux.                                            *)
(***************************************************************************)
\* C28: whenever the mux has run, the video track it was given was at least
\* as long as the merged narration, so that the output, which ends with the
\* shorter stream, holds the whole narration.
C28_MuxNeverTruncates ==
    stock.op = "stock" /\ stock.pc = "muxed" =>
        /\ stock.video >= stock.target
        /\ stock.final = stock.target

\* the clips a pass of the extension loop can append
Downloaded == {stock.inputPaths[i] : i \in 1..Len(stock.inputPaths)}

\* C29: on the path of several clips the extension loop ends: each pass adds
\* one segment and none starts with more than 100, so there are at most
\* 101 - len(inputPaths) passes, and under fair scheduling the preparation
\* reaches its end; a pass appends a clip of the downloaded set and downloads
\* nothing, a failed probe adding 0 to the sum; and when the loop is left
\* either sum - (count-1) * 1 s >= target + 5 s or count > 100.
C29_ExtensionLoopEnds ==
    /\ [](stock.op = "stock" /\ stock.pc = "extend" =>
             /\ stock.count <= 100
             /\ stock.count = Len(stock.inputPaths) + stock.rounds)
    /\ [](stock.op = "stock" /\ stock.path = "multi"
             /\ stock.pc = "assemble" =>
             \/ stock.raw - (stock.count - 1) * 1000 >= stock.target + 5000
             \/ stock.count > 100)
    /\ [](stock.op = "stock" /\ stock.pc # "search" /\ stock.err = NoError =>
             stock.downloads = Len(stock.inputPaths))
    /\ [][stock.op = "stock" /\ stock.pc = "extend" =>
             /\ stock'.pc \in {"extend", "assemble"}
             /\ stock'.count = stock.count + 1
             /\ stock'.inputPaths = stock.inputPaths
             /\ stock'.downloads = stock.downloads
             /\ stock'.actual - stock.actual \in Downloaded
             /\ stock'.raw - stock.raw \in {0, stock'.actual - stock.actual}
        ]_vars
    /\ <>(stock.op = "stock" /\ stock.pc \in {"failed", "muxed"})

\* the loop was left at the cap, after a pass whose probe failed, with the
\* effective duration still short of the target and its margin
C29_Witness ==
    /\ stock.op = "stock" /\ stock.path = "multi" /\ stock.pc = "assemble"
    /\ stock.count = 101
    /\ stock.probeFailures > 0
    /\ stock.raw - (stock.count - 1) * 1000 < stock.target + 5000

\* C30 as stated: the track PrepareStockVideo returns was trimmed with the
\* target plus 2 s as its length, on either path.
C30_Original ==
    stock.op = "stock" /\ stock.pc = "prepared" =>
        stock.trimTo \in Hundredths(stock.target + 2000)

\* C30: the track of several clips is the merged one cut at the target plus
\* 2 s, to the hundredth of a second, and shorter when the merged one is;
\* the track of a single clip is the looped one cut at the target itself,
\* to the hundredth of a second, with no margin.
C30_TrimmedToMarginOnlyWhenMerged ==
    stock.op = "stock" /\ stock.pc \in {"prepared", "muxed"} =>
        IF stock.path = "multi"
        THEN /\ stock.trimTo \in Hundredths(stock.target + 2000)
             /\ stock.video =
                   Shorter(stock.actual - (stock.count - 1) * 1000,
                           stock.trimTo)
        ELSE /\ stock.path = "single"
             /\ stock.trimTo \in Hundredths(stock.target)
             /\ stock.raw > stock.target
             /\ stock.video = Shorter(stock.raw, stock.trimTo)

\* a single clip looped and cut at the target, below the narration's length
C30_Witness ==
    /\ stock.op = "stock" /\ stock.pc = "prepared"
    /\ stock.path = "single"
    /\ stock.trimTo < stock.target
    /\ stock.video = stock.trimTo

(***************************************************************************)
(* The stock search.                                                       *)
(***************************************************************************)
Searched == stock.op = "search" /\ stock.pc \in {"selected", "failed"}

HasLink(video) == \E i \in 1..Len(video.files) : video.files[i].Link # 0

InBandVideos ==
    SelectSeq(stock.Videos, LAMBDA v : v.Duration >= 5 /\ v.Duration <= 35)

\* the candidates in the band that have a file with a link, in ranked order
Usable == SelectSeq(InBandVideos, HasLink)

\* the milliseconds of the candidates lo..hi of a list
RECURSIVE RawDuration(_, _, _)
RawDuration(videos, lo, hi) ==
    IF lo > hi THEN 0
    ELSE IF lo = hi THEN videos[lo].Duration * 1000
    ELSE RawDuration(videos, lo, (lo + hi) \div 2)
            + RawDuration(videos, ((lo + hi) \div 2) + 1, hi)

IsPrefixOf(urls, videos) ==
    /\ Len(urls) <= Len(videos)
    /\ \A i \in 1..Len(urls) :
          \E j \in 1..Len(videos[i].files) : videos[i].files[j].Link = urls[i]

CategoryOf(i) ==
    LET f == stock.files[i]
        wide == f.Height > 0 /\ 100 * f.Width > 177 * f.Height
                   /\ 100 * f.Width < 178 * f.Height
    IN IF f.Width = 1920 /\ f.Height = 1080 THEN 5
       ELSE IF wide /\ f.Width >= 1280 THEN 4
       ELSE IF wide THEN 3
       ELSE IF f.Quality = "hd" THEN 2
       ELSE 1

\* C32: of two files of one video the one in the higher category has the
\* higher score, so the file chosen is of the best category present; the
\* width decides only between files of one category.
C32_CategoryDecidesScore ==
    stock.op = "score" /\ stock.pc = "scored" =>
        /\ \A i, j \in 1..Len(stock.files) :
              /\ CategoryOf(i) > CategoryOf(j) =>
                    stock.scores[i] > stock.scores[j]
              /\ CategoryOf(i) = CategoryOf(j)
                    /\ stock.files[i].Width > stock.files[j].Width =>
                    stock.scores[i] > stock.scores[j]
        /\ \E i \in 1..Len(stock.files) :
              /\ stock.files[i].Link = stock.bestLink
              /\ \A j \in 1..Len(stock.files) : CategoryOf(j) <= CategoryOf(i)

(***************************************************************************)
(* The offsets of the transitions.                                         *)
(***************************************************************************)
Merged == stock.op = "merge" /\ stock.pc = "merged"

\* the milliseconds of the first i files merged
RECURSIVE SumBefore(_)
SumBefore(i) == IF i = 0 THEN 0 ELSE SumBefore(i - 1) + stock.durations[i]

AllLongerThanTransition ==
    \A j \in 1..Len(stock.durations) : stock.durations[j] > stock.transition

\* exactly N-1 transitions, transition i taking the output of transition i-1
\* (the first normalised input for i = 1) and the i-th normalised input, the
\* last one writing [vout]
Chained ==
    LET n == Len(stock.durations)
    IN /\ Len(stock.filters) = n - 1
       /\ \A i \in 1..(n - 1) :
             /\ stock.filters[i].second = <<"norm", i>>
             /\ stock.filters[i].first =
                   IF i = 1 THEN <<"norm", 0>> ELSE stock.filters[i - 1].out
             /\ stock.filters[i].out =
                   IF i = n - 1 THEN <<"vout", 0>> ELSE <<"v", i>>

\* C33 as stated: the offset written for transition i is the sum of the
\* durations before it less i transitions, and the offsets written are
\* non-negative and strictly increasing when every duration exceeds the
\* transition.
C33_Original ==
    Merged =>
        /\ Chained
        /\ \A i \in 1..Len(stock.filters) :
              stock.filters[i].offset = SumBefore(i) - i * stock.transition
        /\ AllLongerThanTransition =>
              \A i \in 1..Len(stock.filters) :
                 /\ stock.filters[i].offset >= 0
                 /\ i > 1 =>
                       stock.filters[i].offset > stock.filters[i - 1].offset

\* C33: the offset computed for transition i is the sum of the durations
\* before it less i transitions, and computed offsets are positive and
\* strictly increasing when every duration exceeds the transition; the
\* offset written into the filter is the computed one rounded to the
\* hundredth of a second, so the written offsets are non-negative and
\* non-decreasing in that case; exactly N-1 transitions are chained.
C33_OffsetsRoundedToHundredths ==
    Merged =>
        /\ Chained
        /\ \A i \in 1..Len(stock.filters) :
              /\ stock.filters[i].raw = SumBefore(i) - i * stock.transition
              /\ stock.filters[i].offset \in Hundredths(stock.filters[i].raw)
        /\ AllLongerThanTransition =>
              \A i \in 1..Len(stock.filters) :
                 /\ stock.filters[i].raw > 0
                 /\ stock.filters[i].offset >= 0
                 /\ i > 1 =>
                       /\ stock.filters[i].raw > stock.filters[i - 1].raw
                       /\ stock.filters[i].offset
                             >= stock.filters[i - 1].offset

\* three files, each a little longer than the transition: two transitions
\* whose written offsets are the same
C33_Witness ==
    /\ Merged
    /\ Len(stock.filters) = 2
    /\ AllLongerThanTransition
    /\ stock.filters[1].raw < stock.filters[2].raw
    /\ stock.filters[1].offset = stock.filters[2].offset

(***************************************************************************)
(* The loop primitive.                                                     *)
(***************************************************************************)
Looped ==
    /\ stock.op = "stock" /\ stock.path = "single"
    /\ stock.pc \in {"prepared", "muxed"}

Subtitled ==
    /\ stock.op = "srt" /\ stock.pc = "merged"
    /\ stock.cues # <<>>

\* the tenths of a millisecond of the first i chunks
RECURSIVE ChunksBefore(_)
ChunksBefore(i) == IF i = 0 THEN 0 ELSE ChunksBefore(i - 1) + stock.durations[i]

\* the timings of the cues: cue i starts at the intro offset plus the chunks
\* before it less one crossfade for each, and lasts as its chunk does; hence
\* neighbours overlap by the crossfade, and starts are non-negative and do
\* not decrease when no chunk is shorter than the crossfade
CueTimings ==
    LET n == Len(stock.durations)
    IN /\ Len(stock.cues) = n
       /\ \A i \in 1..n :
             /\ stock.cues[i].start =
                   stock.intro + ChunksBefore(i - 1) - (i - 1) * stock.crossfade
             /\ stock.cues[i].end = stock.cues[i].start + stock.durations[i]
       /\ stock.cues[n].end =
             stock.intro + ChunksBefore(n) - (n - 1) * stock.crossfade
       /\ \A i \in 1..(n - 1) :
             stock.cues[i].end - stock.cues[i + 1].start = stock.crossfade
       /\ (\A j \in 1..n : stock.durations[j] >= stock.crossfade) =>
             \A i \in 1..n :
                /\ stock.cues[i].start >= 0
                /\ i > 1 => stock.cues[i].start >= stock.cues[i - 1].start

\* C35: the cues have the timings above, and the last cue ends at the intro
\* offset plus the length of the merged narration.
C35_CuesFollowMergedAudio ==
    Subtitled =>
        /\ CueTimings
        /\ stock.cues[Len(stock.cues)].end = stock.intro + stock.merged

(***************************************************************************)
(* The chunks sent to speech synthesis.                                    *)
(***************************************************************************)
SubtitlesCalled == tp.op = "SplitForSubtitles"

\* C36: the chunks SplitForSubtitles returns are not empty and not longer
\* than MaxSubtitleLength, and one after the other, spaces apart, they are
\* the script: no character but a space is left out, added or changed.
C36_SubtitleChunksReproduceScript ==
    SubtitlesCalled =>
        /\ \A c \in 1..Len(tp.chunks) :
              /\ tp.chunks[c] # <<>>
              /\ Len(tp.chunks[c]) <= tp.MaxSubtitleLength
        /\ Squeeze(Concat(tp.chunks)) = Squeeze(tp.text)

(***************************************************************************)
(* The spread of the usage counters.                                       *)
(***************************************************************************)
NeverBlacklisted ==
    /\ client.op = "pool"
    /\ \A k \in Keys : promisedUntil[PoolUnderTest][k] = 0

Spread ==
    Largest({usageCounts[PoolUnderTest][k] : k \in Keys})
       - minUsage(usageCounts[PoolUnderTest], Keys)

\* C37: as long as no key of the pool has been blacklisted, the most used
\* key has been returned at most len(keys)/2 + 1 times more than the least
\* used one, the division rounding down.
C37_SpreadBounded ==
    NeverBlacklisted => Spread <= (NumKeys \div 2) + 1

\* the bound is met: a key was returned again while it led by len(keys)/2
C37_Witness ==
    /\ NeverBlacklisted
    /\ ret.op = "GetRandomKey" /\ ret.key # NoKey
    /\ Spread = (NumKeys \div 2) + 1
    /\ usageCounts[PoolUnderTest][ret.key]
          = Largest({usageCounts[PoolUnderTest][k] : k \in Keys})

(***************************************************************************)
(* The passes of smartSplit.                                               *)
(***************************************************************************)
InSmartSplit == tp.op = "smartSplit"

\* the clause punctuation of smartSplit that occurs in s
HasPunctuation(s) ==
    \E i \in 1..Len(s) :
        \/ s[i] \in {";", ":", ","}
        \/ /\ i + 2 <= Len(s)
           /\ s[i] = " " /\ s[i + 1] \in {"-", "emdash"} /\ s[i + 2] = " "

\* the last pass cut at the limit, and not behind punctuation ending there
HardCut ==
    /\ InSmartSplit /\ tp.passes > 0
    /\ tp.splitIdx = tp.limit
    /\ tp.before[tp.limit] \notin {";", ":", ","}

\* C38: smartSplit ends for every text and every limit of 1 or more: each
\* pass makes the remaining text shorter; every chunk has a character and
\* at most limit of them; the remaining text is cut at the limit, within a
\* word, only when its first limit characters hold no space and those from
\* limit/3 on no clause punctuation; and the chunks returned are those of
\* the loop.
C38_SmartSplitTerminates ==
    /\ [][InSmartSplit /\ tp'.passes # tp.passes =>
             Len(tp'.remaining) < Len(tp.remaining)]_vars
    /\ [](InSmartSplit =>
             \A c \in 1..Len(tp.chunks) :
                /\ tp.chunks[c] # <<>>
                /\ Len(tp.chunks[c]) <= tp.limit)
    /\ [](HardCut =>
             /\ \A i \in 1..tp.limit : tp.before[i] # " "
             /\ ~HasPunctuation(SubSeq(tp.before, (tp.limit \div 3) + 1,
                                       tp.limit)))
    /\ [](InSmartSplit /\ tp.pc = "done" =>
             tp.chunks = smartSplit(tp.text, tp.limit))
    /\ <>(InSmartSplit /\ tp.pc = "done")

\* a text cut at the limit within a word, a comma lying before the
\* searched region, and returned in two chunks
C38_Witness ==
    /\ HardCut
    /\ tp.pc = "done"
    /\ tp.limit >= 3
    /\ tp.before[1] = ","
    /\ Len(tp.chunks) = 2

(***************************************************************************)
(* The sentences of a text.                                                *)
(***************************************************************************)
SentencesCalled == tp.op = "splitIntoSentences"

Terminators == {".", "!", "?", "fullstop", "fullbang", "fullquery"}

\* the positions of text holding a terminator with a space right after it
CutsOf(text) ==
    {i \in 1..Len(text) :
        /\ text[i] \in Terminators
        /\ i < Len(text)
        /\ text[i + 1] = " "}

\* the pieces of text: each ends at a cut, the last at the end of the text
PiecesOf(text) ==
    LET ends == CutsOf(text) \cup {Len(text)}
        startOf(e) == IF \E c \in CutsOf(text) : c < e
                      THEN Largest({c \in CutsOf(text) : c < e}) + 1
                      ELSE 1
    IN {<<startOf(e), e>> : e \in ends}

\* the pieces that hold more than spaces
FullPiecesOf(text) ==
    {p \in PiecesOf(text) : \E i \in p[1]..p[2] : text[i] # " "}

\* C39: splitIntoSentences ends a sentence at each terminator with
\* whitespace right after it and nowhere else: the sentences are, in order,
\* the trimmed pieces between these cuts, the last one the fragment after
\* the last cut if it holds a character; none is empty; and one after the
\* other they are the text without its whitespace.
C39_SentencesEndAtTerminatorBeforeSpace ==
    SentencesCalled =>
        /\ Len(tp.sentences) = Cardinality(FullPiecesOf(tp.text))
        /\ \A k \in 1..Len(tp.sentences) :
              /\ tp.sentences[k] # <<>>
              /\ \E p \in FullPiecesOf(tp.text) :
                    /\ Cardinality({q \in FullPiecesOf(tp.text) :
                                       q[2] <= p[2]}) = k
                    /\ IsTrimOf(tp.sentences[k], SubSeq(tp.text, p[1], p[2]))
        /\ Squeeze(Concat(tp.sentences)) = Squeeze(tp.text)

\* a full-width terminator before a space ends the first sentence; a full
\* stop within the second and one at the end of the text end none
C39_Witness ==
    /\ SentencesCalled
    /\ Len(tp.text) >= 4
    /\ tp.text[1] = "fullquery" /\ tp.text[2] = " "
    /\ tp.text[3] = "." /\ tp.text[Len(tp.text)] = "."
    /\ Len(tp.sentences) = 2

(***************************************************************************)
(* The fields of a stamp.                                                  *)
(***************************************************************************)
Stamped == stock.op = "stamp" /\ stock.pc = "formatted"

\* the stamp read back, in milliseconds
StampValue(stamp) ==
    ((stamp.h * 3600 + stamp.m * 60 + stamp.s) * 1000) + stamp.ms

\* C40: the stamp of a time of zero or more has minutes and seconds from 0
\* to 59 and milliseconds from 0 to 999, and reads as the time rounded to
\* the nearest millisecond, a round-up to a whole second carried into the
\* seconds.
C40_StampIsNearestMillisecond ==
    Stamped =>
        /\ stock.stamp.h >= 0
        /\ stock.stamp.m \in 0..59
        /\ stock.stamp.s \in 0..59
        /\ stock.stamp.ms \in 0..999
        /\ \E t \in Nearest(stock.seconds, 10) :
              StampValue(stock.stamp) * 10 = t

====
